---- MODULE Spec2Model ----
(***************************************************************************)
(* Moonbags BuyBot (src/bot.py with src/database.py, src/sui.py,           *)
(* src/sui_api.py, src/buy_stream.py, src/utils.py): the three SQLite      *)
(* tables, the per-user session dictionary, the check_buys polling job,    *)
(* the trend_alert job, the setup wizard, the boost payment flow, the      *)
(* stream clients with their queue, and the formatting functions.          *)
(*                                                                         *)
(* Conventions.  USD amounts are integers in cents (49.99 is 4999).        *)
(* Python dictionaries are functions whose DOMAIN is the set of keys       *)
(* present, the tables groups and boosts are the sets of their rows and    *)
(* buys is a function from transaction_id to the row, SQL NULL / Python    *)
(* None is the string "None".  Awaited collaborators                       *)
(* (fetch_recent_buys, fetch_token_info, get_token_symbol, the chat API)   *)
(* are the environment: an action draws their result, or their failure,    *)
(* with \E.                                                                *)
(***************************************************************************)
EXTENDS Integers, Sequences, FiniteSets, TLC

(* ------------------------------ bounds --------------------------------- *)
MaxFed == 2       \* trade records the feed returns in a behaviour
MaxFaults == 1    \* failures of awaited calls in a behaviour
MaxOptional == 1  \* optional fields a wizard session collects
MaxBoostCommands == 2  \* /boost commands in a behaviour
MaxConversations == 1  \* chats in which the user has the wizard open at once
MaxRanked == 11        \* tokens in a token_data list
MaxDrops == 2          \* connections a stream client loses or is refused
MaxMessages == 2       \* messages the listener receives in a behaviour
MaxNotifications == 2  \* event notifications the socket of buy_stream delivers
MaxSubscribes == 2     \* tokens the main thread puts on subscribe_queue

(* --------------------------- program constants ------------------------- *)
TRENDING_CHANNEL == "@moonbagstrending"
TRENDING_MIN_USD == 20000
EMOJI_STEP_USD == 500
EMOJI_MAX == 20
FORMAT_ALERT_EMOJI_MAX == 50
CHECK_INTERVAL == 30
VOLUME_WINDOW == 1800
TOP_N == 10
FIRST_LOOKBACK == 60

(* ------------------------------ universes ------------------------------ *)
Now0 == 1000 * 1000
Clock == {Now0, Now0 + 30}     \* the readings of time.time()
None == "None"
GroupIds == {"g1", "g2"}
Tokens == {"0xaaaaaaaa01", "0xbbbbbbbb02"}
TxIds == {"tx1", "tx2", "tx3", "tx4"}

EmptyDict == <<>>

VARIABLES
    now,          \* int(time.time())
    groups,       \* table groups: its rows
    buys,         \* table buys: transaction_id -> row
    boosts,       \* table boosts: its rows
    bot_data,     \* context.bot_data
    outbox,       \* messages delivered by the chat API, in order
    fed,          \* number of trade records the feed has returned
    faults,       \* number of failures drawn so far
    cb_pc,        \* position of the running check_buys: "idle", "poll", "buys"
    cb_tokens,    \* tokens of this run still to poll
    cb_boosted,   \* boosted_tokens read at the start of the run
    cb_now,       \* the time at which the run read the tables
    cb_last_check,\* local last_check of the run
    cb_token,     \* token_address of the loop
    cb_buys,      \* buys of cb_token still to process
    cb_locals,    \* the formatted strings, locals of check_buys
    cb_fetch,     \* outcome of the last fetch_recent_buys of the run
    last_buy,     \* what the processing of the last buy did
    board,        \* the last trend_alert run: its top_tokens, how it ended, what it sent
    user_data,    \* context.user_data of the user
    conv,         \* state of the ConversationHandler in each chat of the user
    verifier,     \* the module whose verify_payment the build runs
    last_op,      \* what the last handler did, if it was finish_setup or cancel
    last_confirm, \* what the last confirm_boost did
    boost_log,    \* the /boost commands so far: their number, their tokens, and the
                  \* tokens a duration was selected after
    formatted,    \* the last call of an alert formatter: its arguments and its count
    shortened,    \* the last call of shorten_address: its argument and its result
    ranking,      \* the last ranking of a token_data list: the list and its top_tokens
    ws_state,     \* sui_api: the WebSocketApp of the listener thread
    ws_drops,     \* sui_api: connections lost or refused so far
    ws_received,  \* sui_api: messages handed to on_message so far
    on_msg,       \* sui_api: where on_message is, and its buy_data
    queue_lock,   \* sui_api._queue_lock: who holds it
    buy_event_queue,  \* sui_api._buy_event_queue
    fetch_call,   \* sui_api: where fetch_recent_buys_from_queue is, and its local buys
    produced,     \* the buy_data appended to the queue so far, in order
    returned,     \* the buy_data returned by the fetch calls so far, in order
    bs_state,     \* buy_stream: where run_ws_client is
    bs_subscribed,  \* buy_stream: the tokens subscribed on the open connection
    bs_drops,     \* buy_stream: connections lost or refused so far
    bs_pc,        \* buy_stream: where _ws_listen is in its loop
    bs_msg,       \* buy_stream: the local msg of _ws_listen
    bs_token,     \* buy_stream: the local new_token of _ws_listen
    bs_inbound,   \* buy_stream: event notifications the socket has delivered so far
    subscribe_queue,  \* buy_stream.subscribe_queue
    event_queue,  \* buy_stream.event_queue
    bs_puts       \* buy_stream: tokens put on subscribe_queue so far

feedVars == <<now, groups, buys, boosts, bot_data, outbox, fed, faults,
              cb_pc, cb_tokens, cb_boosted, cb_now, cb_last_check, cb_token,
              cb_buys, cb_locals, cb_fetch, last_buy>>

trendVars == <<board>>

wsListenVars == <<bs_pc, bs_msg, bs_token, bs_inbound, subscribe_queue, event_queue, bs_puts>>

streamVars == <<ws_state, ws_drops, ws_received, on_msg, queue_lock, buy_event_queue,
               fetch_call, produced, returned, bs_state, bs_subscribed, bs_drops,
               wsListenVars>>

userVars == <<user_data, conv, verifier, last_op, last_confirm, boost_log, formatted,
             shortened, ranking, streamVars>>

(* ------------------------------ helpers -------------------------------- *)
GroupOrder == <<"g1", "g2">>

SeqsUpTo(S, n) == UNION {[1..k -> S] : k \in 0..n}

Perms(S) == {f \in [1..Cardinality(S) -> S] : \A i, j \in 1..Cardinality(S) : f[i] = f[j] => i = j}

Max2(a, b) == IF a >= b THEN a ELSE b
Min2(a, b) == IF a <= b THEN a ELSE b

(* dict.get(key, default) *)
Get(d, k, default) == IF k \in DOMAIN d THEN d[k] ELSE default

(* Python truthiness of an optional string column *)
Truthy(v) == v # None /\ v # ""

(* ------------------------- environment: the APIs ----------------------- *)
(* What the market-data endpoint answers for a token. *)
TokenInfo(tok) ==
    IF tok = "0xaaaaaaaa01"
    THEN [symbol |-> "AAA", price |-> 2, market_cap |-> 1500000, liquidity |-> 250000]
    ELSE [symbol |-> "BBB", price |-> 3, market_cap |-> 800000, liquidity |-> 2000000]

(* The trade records the recent-trades endpoint may return at time t. *)
UsdOf(tx) == CASE tx = "tx1" -> 4999 [] tx = "tx2" -> 5000
                  [] tx = "tx3" -> 19999 [] OTHER -> 20000

Trades(t) == {[tx_hash |-> tx, buyer_address |-> "0xbuyer00000001", amount |-> 12500,
               usd_value |-> UsdOf(tx), timestamp |-> t] : tx \in TxIds}

(* ------------------------------ formatting ----------------------------- *)
(* f"${usd:.2f}" of an amount in cents: dollars and cents *)
UsdStr(cents) == <<"$", cents \div 100, cents % 100>>

(* f"{amount:.4f}" of an amount in ten-thousandths *)
AmountStr(a) == <<a \div 10000, a % 10000>>

(* bot.py:870-878, market cap and liquidity abbreviated to M or K, 2 decimals *)
MarketStr(v) ==
    IF v > 1000000 THEN <<"$", (v * 100 + 500000) \div 1000000, "M">>
    ELSE <<"$", (v * 100 + 500) \div 1000, "K">>

(* bot.py:862 and 939: max(1, min(20, int(usd_value / 5))) *)
EmojiCount(usd) == Max2(1, Min2(EMOJI_MAX, usd \div EMOJI_STEP_USD))

(* utils.py:37 and 49-53: the emojis of format_alert, for the buy_step of   *)
(* the group settings (1 when the settings have none), in whole dollars     *)
format_alert_emojis(usd, group_settings) ==
    LET buy_step == IF "buy_step" \in DOMAIN group_settings
                    THEN group_settings["buy_step"] ELSE 1
        emoji_count == IF buy_step > 0 THEN Max2(1, usd \div (buy_step * 100)) ELSE 0
    IN Min2(emoji_count, FORMAT_ALERT_EMOJI_MAX)

(* bot.py:866-878: the locals assigned when a group's threshold is met *)
FormatLocals(buy, info) ==
    [usd_value_str |-> UsdStr(buy.usd_value),
     token_amount_str |-> AmountStr(buy.amount),
     market_cap_str |-> MarketStr(info.market_cap),
     liquidity_str |-> MarketStr(info.liquidity)]

(* bot.py:897-904: the optional link buttons *)
LinkButtons(row) ==
    (IF Truthy(row.website) THEN <<"Website">> ELSE <<>>) \o
    (IF Truthy(row.telegram_link) THEN <<"Telegram">> ELSE <<>>) \o
    (IF Truthy(row.twitter_link) THEN <<"Twitter">> ELSE <<>>)

(* bot.py:880-927: the alert sent to one group *)
AlertMessage(g, row, buy, tok, info, loc) ==
    [chat |-> g, kind |-> "buy_alert", tx |-> buy.tx_hash, token |-> tok,
     body |-> [method |-> IF Truthy(row.media_file_id) THEN "send_photo" ELSE "send_message",
               emoji |-> row.emoji, emoji_count |-> EmojiCount(buy.usd_value),
               symbol |-> info.symbol, price |-> info.price,
               usd_value_str |-> loc.usd_value_str,
               token_amount_str |-> loc.token_amount_str,
               market_cap_str |-> loc.market_cap_str,
               liquidity_str |-> loc.liquidity_str,
               links |-> LinkButtons(row)]]

(* bot.py:857-859: skip if the buy is smaller than the group's minimum *)
BelowMinimum_strict(buy, row) == buy.usd_value <= row.min_buy_usd
BelowMinimum(buy, row) == buy.usd_value < row.min_buy_usd

(* database.py:23-60: a table is the set of its rows.  INSERT OR REPLACE    *)
(* deletes the rows whose PRIMARY KEY equals the new row's and inserts it.  *)
InsertOrReplace_append(table, key, row) == table \cup {row}

InsertOrReplace(table, key, row) == {r \in table : r[key] # row[key]} \cup {row}

(* SELECT ... WHERE group_id = ? and dict(cursor.fetchall()): the rows by   *)
(* their key                                                                *)
GroupById ==
    [g \in {r.group_id : r \in groups} |-> CHOOSE r \in groups : r.group_id = g]

BoostByToken ==
    [tok \in {r.token_address : r \in boosts} |->
        (CHOOSE r \in boosts : r.token_address = tok).expiration_timestamp]

(* the rows of a table given by key *)
GroupRows(d) == {[group_id |-> g] @@ d[g] : g \in DOMAIN d}

BoostRows(d) == {[token_address |-> tok, expiration_timestamp |-> d[tok]] : tok \in DOMAIN d}

(* bot.py:840-851: SELECT ... FROM groups WHERE token_address = ?, in rowid order *)
GroupsTracking(tok) ==
    SelectSeq(GroupOrder, LAMBDA g : g \in DOMAIN GroupById /\ GroupById[g].token_address = tok)

(* bot.py:854-929: the loop over the groups tracking the token.  acc carries *)
(* the locals of check_buys, the groups a send was attempted to and the      *)
(* messages delivered; failing are the groups whose send raises.             *)
RECURSIVE GroupLoop_abort(_, _, _, _, _, _)
GroupLoop_abort(rows, buy, tok, info, failing, acc) ==
    IF rows = <<>> THEN acc
    ELSE LET g == Head(rows)
             row == GroupById[g]
         IN IF BelowMinimum(buy, row)
            THEN GroupLoop_abort(Tail(rows), buy, tok, info, failing, acc)
            ELSE LET loc == FormatLocals(buy, info)
                     msg == AlertMessage(g, row, buy, tok, info, loc)
                     nxt == [locals |-> loc,
                             attempted |-> acc.attempted \cup {g},
                             out |-> IF g \in failing THEN acc.out ELSE Append(acc.out, msg)]
                 IN IF g \in failing THEN nxt
                    ELSE GroupLoop_abort(Tail(rows), buy, tok, info, failing, nxt)

RECURSIVE GroupLoop(_, _, _, _, _, _)
GroupLoop(rows, buy, tok, info, failing, acc) ==
    IF rows = <<>> THEN acc
    ELSE LET g == Head(rows)
             row == GroupById[g]
         IN IF BelowMinimum(buy, row)
            THEN GroupLoop(Tail(rows), buy, tok, info, failing, acc)
            ELSE LET loc == FormatLocals(buy, info)
                     msg == AlertMessage(g, row, buy, tok, info, loc)
                 IN GroupLoop(Tail(rows), buy, tok, info, failing,
                        [locals |-> loc,
                         attempted |-> acc.attempted \cup {g},
                         out |-> IF g \in failing THEN acc.out ELSE Append(acc.out, msg)])

(* bot.py:932-935 *)
ShouldPostTrending_low(buy, tok, boosted_tokens) ==
    buy.usd_value >= 2000 \/ tok \in boosted_tokens
ShouldPostTrending(buy, tok, boosted_tokens) ==
    buy.usd_value >= TRENDING_MIN_USD \/ tok \in boosted_tokens

(* bot.py:965-973: media of the first group of the token that has one *)
TrendingMedia(tok) ==
    LET withMedia == SelectSeq(GroupOrder, LAMBDA g : g \in DOMAIN GroupById
                                  /\ GroupById[g].token_address = tok
                                  /\ GroupById[g].media_file_id # None)
    IN IF withMedia = <<>> THEN None ELSE GroupById[Head(withMedia)].media_file_id

(* bot.py:939-989: the alert sent to the trending channel *)
TrendingMessage(buy, tok, info, loc) ==
    [chat |-> TRENDING_CHANNEL, kind |-> "trending_buy", tx |-> buy.tx_hash, token |-> tok,
     body |-> [method |-> IF Truthy(TrendingMedia(tok)) THEN "send_photo" ELSE "send_message",
               emoji |-> "fire", emoji_count |-> EmojiCount(buy.usd_value),
               symbol |-> info.symbol, price |-> info.price,
               usd_value_str |-> loc.usd_value_str,
               token_amount_str |-> loc.token_amount_str,
               market_cap_str |-> loc.market_cap_str,
               liquidity_str |-> loc.liquidity_str,
               links |-> <<>>]]

(* bot.py:814-831: INSERT OR IGNORE INTO buys *)
InsertOrIgnoreBuy_replace(table, tok, buy) ==
    [tx \in DOMAIN table \cup {buy.tx_hash} |->
        IF tx = buy.tx_hash
        THEN [token_address |-> tok, buyer_address |-> buy.buyer_address,
              amount |-> buy.amount, usd_value |-> buy.usd_value,
              timestamp |-> buy.timestamp]
        ELSE table[tx]]
InsertOrIgnoreBuy(table, tok, buy) ==
    IF buy.tx_hash \in DOMAIN table THEN table
    ELSE table @@ (buy.tx_hash :> [token_address |-> tok,
                                   buyer_address |-> buy.buyer_address,
                                   amount |-> buy.amount,
                                   usd_value |-> buy.usd_value,
                                   timestamp |-> buy.timestamp])

ActiveBoosts_all(t) == {r.token_address : r \in boosts}

(* bot.py:788-790: SELECT token_address FROM boosts WHERE expiration_timestamp > now *)
ActiveBoosts(t) == {r.token_address : r \in {x \in boosts : x.expiration_timestamp > t}}

(* bot.py:784-785: SELECT DISTINCT token_address FROM groups *)
TrackedTokens == {r.token_address : r \in groups}

NoBuy == [tx |-> "none", token |-> "none", usd_value |-> 0, novel |-> FALSE,
          info_ok |-> FALSE, attempted |-> {}, failed |-> {}, trending |-> "none",
          at |-> 0]

NoRanking == [called |-> FALSE, token_data |-> <<>>, top_tokens |-> <<>>]

NoShorten == [called |-> FALSE, address |-> [kind |-> "None", chars |-> <<>>],
              result |-> [kind |-> "None", chars |-> <<>>]]

NoFormat == [by |-> "none", usd_value |-> 0, configured |-> FALSE, step |-> 0, count |-> 0]

NoBoard == [at |-> 0, top_tokens |-> <<>>, outcome |-> "none", entries |-> <<>>]

(* bot.py:37-47: the conversation states, and ConversationHandler.END *)
CHOOSING == 0
INPUT_TOKEN == 1
INPUT_MIN_BUY == 2
INPUT_EMOJI == 3
INPUT_WEBSITE == 4
INPUT_TELEGRAM == 5
INPUT_TWITTER == 6
INPUT_MEDIA == 7
BOOST_CONFIRM == 8
END == 0 - 1

(* the chats of the user: the private chat with the bot and a group *)
PrivateChat == "pm"
UserGroups == {"g1"}
Chats == {PrivateChat} \cup UserGroups

NoOp == [op |-> "none", chat |-> "none", reply |-> "none", delivered |-> FALSE,
         saved |-> FALSE]

NoBoostLog == [issued |-> {}, selected |-> {}, commands |-> 0]

NoConfirm == [hash |-> "none", token |-> "none", duration |-> "none", cost |-> 0,
              at |-> 0, verified |-> "not_reached", wrote |-> FALSE, shown |-> "none",
              announced |-> FALSE, chat_failed |-> FALSE, after_failed |-> FALSE,
     repeated |-> FALSE, replaced |-> FALSE]

vars == <<feedVars, trendVars, userVars>>

(* ------------------------------- the clock ----------------------------- *)
AdvanceTime ==
    /\ \E t \in Clock : t > now /\ now' = t
    /\ UNCHANGED <<trendVars, userVars>>
    /\ UNCHANGED <<groups, buys, boosts, bot_data, outbox, fed, faults, cb_pc, cb_tokens,
                   cb_boosted, cb_now, cb_last_check, cb_token, cb_buys, cb_locals,
                   cb_fetch, last_buy>>

(* ------------------------------ check_buys ----------------------------- *)
(* bot.py:797: last_check = bot_data.get('last_check_timestamp', now - 60) *)
last_check_lookback(bd, t) == t - FIRST_LOOKBACK
last_check(bd, t) == Get(bd, "last_check_timestamp", t - FIRST_LOOKBACK)

(* bot.py:780-799: read the tracked and the boosted tokens, return when no  *)
(* token is tracked, else read and advance the checkpoint, with no await    *)
(* between the read and the write. The job queue starts the runs 30 seconds *)
(* apart (bot.py:1047-1048), so a run starts later than the run before it,  *)
(* whose start is the checkpoint.                                           *)
check_buys_begin ==
    /\ cb_pc = "idle"
    /\ UNCHANGED <<cb_locals, cb_token, cb_buys, cb_fetch>>
    /\ IF TrackedTokens = {}
       THEN UNCHANGED <<bot_data, cb_last_check, cb_pc, cb_now, cb_boosted, cb_tokens>>
       ELSE /\ Get(bot_data, "last_check_timestamp", now - FIRST_LOOKBACK) < now
            /\ cb_now' = now
            /\ cb_boosted' = ActiveBoosts(now)
            /\ cb_last_check' = last_check(bot_data, now)
            /\ bot_data' = [k \in DOMAIN bot_data \cup {"last_check_timestamp"} |->
                               IF k = "last_check_timestamp" THEN now ELSE bot_data[k]]
            /\ cb_pc' = "poll"
            /\ \E order \in Perms(TrackedTokens) : cb_tokens' = order
    /\ UNCHANGED <<trendVars, userVars>>
    /\ UNCHANGED <<now, groups, buys, boosts, outbox, fed, faults, last_buy>>


(* bot.py:993-994: an exception in the body of the loop over the tokens is  *)
(* logged and the loop goes on with the tokens that are left                *)
OnTokenError_abort(tokens) == <<>>
OnTokenError(tokens) == tokens

(* bot.py:802-809 and 993-994: fetch_recent_buys for the next token; it     *)
(* raises (logged, next token), returns nothing (next token) or returns     *)
(* the buys to process.                                                     *)
check_buys_fetch ==
    /\ cb_pc = "poll"
    /\ cb_tokens # <<>>
    /\ cb_token' = Head(cb_tokens)
    /\ \/ /\ faults < MaxFaults
          /\ faults' = faults + 1
          /\ cb_tokens' = OnTokenError(Tail(cb_tokens))
          /\ cb_fetch' = "failed"
          /\ cb_buys' = <<>>
          /\ cb_pc' = "poll"
          /\ fed' = fed
       \/ \E result \in SeqsUpTo(Trades(cb_now), MaxFed - fed) :
          /\ cb_tokens' = Tail(cb_tokens)
          /\ cb_fetch' = IF cb_fetch = "failed" THEN "failed" ELSE "ok"
          /\ cb_buys' = result
          /\ cb_pc' = IF result = <<>> THEN "poll" ELSE "buys"
          /\ fed' = fed + Len(result)
          /\ faults' = faults
    /\ UNCHANGED <<trendVars, userVars>>
    /\ UNCHANGED <<now, groups, buys, boosts, bot_data, outbox,
                   cb_boosted, cb_now, cb_last_check, cb_locals, last_buy>>

(* bot.py:812-994: one iteration of the loop over the buys of the token:    *)
(* insert, fetch the token info, alert the groups, post to trending.  An    *)
(* exception (the info fetch raising, an unbound local) abandons the        *)
(* remaining buys of the token.                                             *)
check_buys_process ==
    /\ cb_pc = "buys"
    /\ cb_buys # <<>>
    /\ \E info_ok \in BOOLEAN, failing \in SUBSET GroupIds, trending_ok \in BOOLEAN :
        LET nfaults == (IF info_ok THEN 0 ELSE 1) + Cardinality(failing)
                         + (IF trending_ok THEN 0 ELSE 1)
            buy == Head(cb_buys)
            tok == cb_token
            info == TokenInfo(tok)
            novel == buy.tx_hash \notin DOMAIN buys
            acc == GroupLoop(GroupsTracking(tok), buy, tok, info, failing,
                             [locals |-> cb_locals, attempted |-> {}, out |-> outbox])
            should == ShouldPostTrending(buy, tok, cb_boosted)
            unbound == should /\ "token_amount_str" \notin DOMAIN acc.locals
            raised == ~info_ok \/ unbound
            base == [tx |-> buy.tx_hash, token |-> tok, usd_value |-> buy.usd_value,
                     novel |-> novel, info_ok |-> info_ok, attempted |-> {},
                     failed |-> failing, trending |-> "none", at |-> cb_now]
        IN /\ faults + nfaults <= MaxFaults
           \* only the calls that are reached can fail
           /\ ~info_ok => failing = {} /\ trending_ok
           /\ info_ok => failing \subseteq acc.attempted
           /\ (info_ok /\ (~should \/ unbound)) => trending_ok
           /\ faults' = faults + nfaults
           /\ buys' = InsertOrIgnoreBuy(buys, tok, buy)
           /\ IF ~info_ok
              THEN /\ UNCHANGED <<outbox, cb_locals>>
                   /\ last_buy' = base
              ELSE /\ cb_locals' = acc.locals
                   /\ IF ~should
                      THEN /\ outbox' = acc.out
                           /\ last_buy' = [base EXCEPT !.attempted = acc.attempted]
                      ELSE IF unbound
                      THEN /\ outbox' = acc.out
                           /\ last_buy' = [base EXCEPT !.attempted = acc.attempted,
                                                       !.trending = "unbound"]
                      ELSE IF trending_ok
                      THEN /\ outbox' = Append(acc.out, TrendingMessage(buy, tok, info, acc.locals))
                           /\ last_buy' = [base EXCEPT !.attempted = acc.attempted,
                                                       !.trending = "sent"]
                      ELSE /\ outbox' = acc.out
                           /\ last_buy' = [base EXCEPT !.attempted = acc.attempted,
                                                       !.trending = "failed"]
           /\ cb_buys' = IF raised THEN <<>> ELSE Tail(cb_buys)
           /\ cb_tokens' = IF raised THEN OnTokenError(cb_tokens) ELSE cb_tokens
           /\ cb_pc' = IF raised \/ Tail(cb_buys) = <<>> THEN "poll" ELSE "buys"
    /\ UNCHANGED <<trendVars, userVars>>
    /\ UNCHANGED <<now, groups, boosts, bot_data, fed,
                   cb_boosted, cb_now, cb_last_check, cb_token, cb_fetch>>

(* bot.py:802 and 996: the loop over the tokens is over, check_buys returns  *)
(* and its locals are gone.                                                 *)
check_buys_end ==
    /\ cb_pc = "poll"
    /\ cb_tokens = <<>>
    /\ cb_pc' = "idle"
    /\ cb_boosted' = {}
    /\ cb_now' = 0
    /\ cb_last_check' = 0
    /\ cb_token' = "none"
    /\ cb_buys' = <<>>
    /\ cb_locals' = EmptyDict
    /\ cb_fetch' = "none"
    /\ last_buy' = NoBuy
    /\ UNCHANGED <<trendVars, userVars>>
    /\ UNCHANGED <<now, groups, buys, boosts, bot_data, outbox, fed, faults,
                   cb_tokens>>

(* ------------------------- the polling feed ---------------------------- *)
GroupRow(tok, min_buy, media) ==
    [token_address |-> tok, token_symbol |-> "TOKEN", min_buy_usd |-> min_buy,
     emoji |-> "rocket", website |-> None, telegram_link |-> None,
     twitter_link |-> None, media_file_id |-> media]

TokA == "0xaaaaaaaa01"
TokB == "0xbbbbbbbb02"

BoostA == (TokA :> Now0 + 30)    \* a boost of TokA that expires at the second clock reading

(* The tables the feed starts from: what completed setups and a confirmed  *)
(* boost leave behind.                                                      *)
FeedTables ==
    { <<EmptyDict, EmptyDict>>,
      <<("g1" :> GroupRow(TokA, 5000, None)), EmptyDict>>,
      <<("g1" :> GroupRow(TokA, 5000, None)), BoostA>>,
      <<("g1" :> GroupRow(TokA, 25000, None)), EmptyDict>>,
      <<("g1" :> GroupRow(TokA, 25000, None)), BoostA>>,
      <<("g1" :> GroupRow(TokA, 5000, None)) @@ ("g2" :> GroupRow(TokA, 25000, "file1")), EmptyDict>>,
      <<("g1" :> GroupRow(TokA, 5000, "file1")) @@ ("g2" :> GroupRow(TokA, 5000, None)), EmptyDict>>,
      <<("g1" :> GroupRow(TokA, 5000, None)) @@ ("g2" :> GroupRow(TokB, 5000, None)), BoostA>>,
      <<("g1" :> GroupRow(TokB, 25000, None)) @@ ("g2" :> GroupRow(TokA, 5000, None)), EmptyDict>>,
      <<("g1" :> GroupRow(TokB, 5000, None)), BoostA>> }

(* msg = None of _ws_listen (buy_stream.py:22 and 26) *)
NoMsg == [type |-> "none", id |-> 0]

InitFrom(tables, verifiers, uds, convs) ==
    /\ now = Now0
    /\ \E t \in tables : groups = GroupRows(t[1]) /\ boosts = BoostRows(t[2])
    /\ verifier \in verifiers
    /\ user_data \in uds
    /\ conv \in convs
    /\ last_op = NoOp
    /\ last_confirm = NoConfirm
    /\ boost_log = NoBoostLog
    /\ formatted = NoFormat
    /\ shortened = NoShorten
    /\ ranking = NoRanking
    /\ ws_state = "connecting"
    /\ ws_drops = 0
    /\ ws_received = 0
    /\ on_msg = [pc |-> "idle", buy_data |-> None]
    /\ queue_lock = "free"
    /\ buy_event_queue = <<>>
    /\ fetch_call = [pc |-> "idle", buys |-> <<>>]
    /\ produced = <<>>
    /\ returned = <<>>
    /\ bs_state = "start"
    /\ bs_subscribed = {}
    /\ bs_drops = 0
    /\ bs_pc = "receive"
    /\ bs_msg = NoMsg
    /\ bs_token = None
    /\ bs_inbound = 0
    /\ subscribe_queue = <<>>
    /\ event_queue = <<>>
    /\ bs_puts = 0
    /\ buys = EmptyDict
    /\ bot_data = EmptyDict
    /\ outbox = <<>>
    /\ fed = 0
    /\ faults = 0
    /\ cb_pc = "idle"
    /\ cb_tokens = <<>>
    /\ cb_boosted = {}
    /\ cb_now = 0
    /\ cb_last_check = 0
    /\ cb_token = "none"
    /\ cb_buys = <<>>
    /\ cb_locals = EmptyDict
    /\ cb_fetch = "none"
    /\ last_buy = NoBuy
    /\ board = NoBoard

(* the state after construction: no user_data, no conversation *)
InitWith(tables, verifiers) ==
    InitFrom(tables, verifiers, {EmptyDict}, {[c \in Chats |-> END]})

InitFeed == InitWith(FeedTables, {"sui_api"})

(* check_buys reads the clock only when it starts (bot.py:789-798), so the  *)
(* clock is advanced between its runs.                                      *)
NextFeed ==
    \/ cb_pc = "idle" /\ AdvanceTime
    \/ check_buys_begin
    \/ check_buys_fetch
    \/ check_buys_process
    \/ check_buys_end

SpecFeed == InitFeed /\ [][NextFeed]_vars

(* ------------------------------ trend_alert ---------------------------- *)
(* bot.py:657-659: the unexpired rows of boosts *)
BoostedTokens(t) == [tok \in ActiveBoosts(t) |-> BoostByToken[tok]]

RECURSIVE SumUsd(_)
SumUsd(S) == IF S = {} THEN 0
             ELSE LET tx == CHOOSE x \in S : TRUE
                  IN buys[tx].usd_value + SumUsd(S \ {tx})

(* bot.py:676-683: SELECT SUM(usd_value) FROM buys WHERE token_address = ?  *)
(* AND timestamp > now - 1800, or 0                                         *)
Volume30m(tok, t) ==
    SumUsd({tx \in DOMAIN buys : /\ buys[tx].token_address = tok
                                 /\ buys[tx].timestamp > t - VOLUME_WINDOW})

(* bot.py:670-699: the entry of token_data for one token *)
TokenData(tok, t) ==
    LET info == TokenInfo(tok)
        boosted_tokens == BoostedTokens(t)
        is_boosted == tok \in DOMAIN boosted_tokens
    IN [address |-> tok,
        symbol |-> info.symbol,
        market_cap |-> info.market_cap,
        price_change |-> Get(info, "price_change_30m", 0),
        volume_30m |-> Volume30m(tok, t),
        is_boosted |-> is_boosted,
        boost_remaining |-> IF is_boosted THEN boosted_tokens[tok] - t ELSE 0]

(* bot.py:704: the sort key (-1 if boosted else 0, -boost_remaining, -volume_30m) *)
SortKey(x) == <<IF x.is_boosted THEN -1 ELSE 0, -x.boost_remaining, -x.volume_30m>>

KeyLess(a, b) ==
    \/ a[1] < b[1]
    \/ a[1] = b[1] /\ a[2] < b[2]
    \/ a[1] = b[1] /\ a[2] = b[2] /\ a[3] < b[3]

(* list.sort is stable: x goes after the entries whose key is not greater *)
RECURSIVE InsertSorted(_, _)
InsertSorted(x, sorted) ==
    IF sorted = <<>> THEN <<x>>
    ELSE IF KeyLess(SortKey(x), SortKey(Head(sorted)))
         THEN <<x>> \o sorted
         ELSE <<Head(sorted)>> \o InsertSorted(x, Tail(sorted))

RECURSIVE SortTokens(_)
SortTokens(seq) ==
    IF seq = <<>> THEN <<>>
    ELSE InsertSorted(seq[Len(seq)], SortTokens(SubSeq(seq, 1, Len(seq) - 1)))

(* bot.py:707 *)
TopTokens_all(sorted) == sorted
TopTokens(sorted) == SubSeq(sorted, 1, Min2(TOP_N, Len(sorted)))

(* bot.py:730-734, one decimal *)
MarketStr1(v) ==
    IF v > 1000000 THEN <<"$", (v * 10 + 500000) \div 1000000, "M">>
    ELSE <<"$", (v * 10 + 500) \div 1000, "K">>

(* bot.py:722-728 *)
PriceChangeStr(c) == IF c > 0 THEN <<"up", c>> ELSE IF c < 0 THEN <<"down", c>> ELSE <<"flat", 0>>

(* bot.py:736-740: the label of a boosted token calls math.ceil, and bot.py *)
(* does not import math: the entry of a boosted token cannot be rendered.   *)
Renders(entry) == ~entry.is_boosted

(* bot.py:718-752: an entry of the message *)
LeaderboardEntry(entry) ==
    [symbol |-> entry.symbol, boost_label |-> None,
     market_cap_str |-> MarketStr1(entry.market_cap),
     price_change_str |-> PriceChangeStr(entry.price_change)]

(* bot.py:717-758: the entries of the message sent to the trending channel *)
LeaderboardMessage(top) == [i \in DOMAIN top |-> LeaderboardEntry(top[i])]

(* bot.py:647-776 *)
trend_alert ==
    /\ board = NoBoard
    /\ \E order \in Perms(TrackedTokens), failed \in SUBSET TrackedTokens,
          send_ok \in BOOLEAN, pin_ok \in BOOLEAN :
        LET fetched == SelectSeq(order, LAMBDA tok : tok \notin failed)
            token_data == [i \in DOMAIN fetched |-> TokenData(fetched[i], now)]
            top == TopTokens(SortTokens(token_data))
            renders == \A i \in DOMAIN top : Renders(top[i])
            sends == top # <<>> /\ renders
            nfaults == Cardinality(failed) + (IF send_ok THEN 0 ELSE 1)
                         + (IF pin_ok THEN 0 ELSE 1)
        IN /\ faults + nfaults <= MaxFaults
           /\ faults' = faults + nfaults
           \* only the calls that are reached can fail
           /\ ~sends => send_ok
           /\ ~(sends /\ send_ok) => pin_ok
           /\ board' = [at |-> now, top_tokens |-> top,
                        outcome |-> IF TrackedTokens = {} THEN "no_tokens"
                                    ELSE IF top = <<>> THEN "no_data"
                                    ELSE IF ~renders THEN "name_error"
                                    ELSE IF ~send_ok THEN "send_failed"
                                    ELSE IF ~pin_ok THEN "sent_not_pinned"
                                    ELSE "sent_pinned",
                        entries |-> IF sends /\ send_ok THEN LeaderboardMessage(top)
                                    ELSE <<>>]
    /\ UNCHANGED <<now, groups, buys, boosts, bot_data, outbox, fed, cb_pc, cb_tokens,
                   cb_boosted, cb_now, cb_last_check, cb_token, cb_buys, cb_locals,
                   cb_fetch, last_buy, userVars>>

(* --------------------- the feed with the leaderboard ------------------- *)
TrendTables ==
    { <<("g1" :> GroupRow(TokA, 5000, None)) @@ ("g2" :> GroupRow(TokB, 5000, None)), BoostA>> }

InitTrend == InitWith(TrendTables, {"sui_api"})

(* trend_alert has returned: its locals are gone *)
trend_alert_end ==
    /\ board # NoBoard
    /\ board' = NoBoard
    /\ UNCHANGED <<feedVars, userVars>>

(* The two jobs of the job queue (bot.py:1048-1051); a run of trend_alert   *)
(* is taken between two runs of check_buys.                                 *)
NextTrend ==
    \/ board = NoBoard /\ NextFeed
    \/ cb_pc = "idle" /\ trend_alert
    \/ trend_alert_end

SpecTrend == InitTrend /\ [][NextTrend]_vars

(* ============================== user input ============================= *)
(* The texts a user sends, and their characters. *)
Texts ==
    {"0xaaaaaaaa01", "0xbbbbbbbb02", " 0xaaaaaaaa01", "0xshort", "aaaa", "50", "0", "abc",
    "nan", "rocket", "elevenchars", "skip", "SKIP", "example.com",
    "https://example.com", "t.me/x", "hOK ", "hOK", "hLOW", "hOTHER",
    "hFAILED", "hNONE", "",
     "0x", "http://", "https://"}

Chars(s) ==
    CASE s = "0xaaaaaaaa01" -> <<"0", "x", "a", "a", "a", "a", "a", "a", "a", "a", "0", "1">>
      [] s = "0xbbbbbbbb02" -> <<"0", "x", "b", "b", "b", "b", "b", "b", "b", "b", "0", "2">>
      [] s = " 0xaaaaaaaa01" -> <<" ", "0", "x", "a", "a", "a", "a", "a", "a", "a", "a", "0", "1">>
      [] s = "0xshort" -> <<"0", "x", "s", "h", "o", "r", "t">>
      [] s = "aaaa" -> <<"a", "a", "a", "a">>
      [] s = "50" -> <<"5", "0">>
      [] s = "0" -> <<"0">>
      [] s = "abc" -> <<"a", "b", "c">>
      [] s = "nan" -> <<"n", "a", "n">>
      [] s = "rocket" -> <<"r", "o", "c", "k", "e", "t">>
      [] s = "elevenchars" -> <<"e", "l", "e", "v", "e", "n", "c", "h", "a", "r", "s">>
      [] s = "skip" -> <<"s", "k", "i", "p">>
      [] s = "SKIP" -> <<"S", "K", "I", "P">>
      [] s = "example.com" -> <<"e", "x", "a", "m", "p", "l", "e", ".", "c", "o", "m">>
      [] s = "https://example.com" -> <<"h", "t", "t", "p", "s", ":", "/", "/", "e", "x", "a", "m", "p", "l", "e", ".", "c", "o", "m">>
      [] s = "t.me/x" -> <<"t", ".", "m", "e", "/", "x">>
      [] s = "hOK " -> <<"h", "O", "K", " ">>
      [] s = "hOK" -> <<"h", "O", "K">>
      [] s = "hLOW" -> <<"h", "L", "O", "W">>
      [] s = "hOTHER" -> <<"h", "O", "T", "H", "E", "R">>
      [] s = "hFAILED" -> <<"h", "F", "A", "I", "L", "E", "D">>
      [] s = "hNONE" -> <<"h", "N", "O", "N", "E">>
      [] s = "" -> <<>>
      [] s = "0x" -> <<"0", "x">>
      [] s = "http://" -> <<"h", "t", "t", "p", ":", "/", "/">>
      [] s = "https://" -> <<"h", "t", "t", "p", "s", ":", "/", "/">>

(* the text with the given characters *)
Text(cs) == CHOOSE s \in Texts : Chars(s) = cs

RECURSIVE LStrip(_)
LStrip(cs) == IF cs # <<>> /\ Head(cs) = " " THEN LStrip(Tail(cs)) ELSE cs

RECURSIVE RStrip(_)
RStrip(cs) == IF cs # <<>> /\ cs[Len(cs)] = " " THEN RStrip(SubSeq(cs, 1, Len(cs) - 1)) ELSE cs

(* str.strip() *)
Strip(s) == Text(RStrip(LStrip(Chars(s))))

(* str.startswith(p) *)
StartsWith(s, p) ==
    LET c == Chars(s)
        q == Chars(p)
    IN Len(c) >= Len(q) /\ SubSeq(c, 1, Len(q)) = q

(* len(s) *)
StrLen(s) == Len(Chars(s))

(* the dictionary d with d[k] = v *)
Put(d, k, v) == [x \in DOMAIN d \cup {k} |-> IF x = k THEN v ELSE d[x]]

(* the dictionary d without the keys ks *)
Del(d, ks) == [x \in DOMAIN d \ ks |-> d[x]]

(* the handlers change the session and the tables; the jobs are not running *)
jobVars == <<now, buys, bot_data, outbox, fed, cb_pc, cb_tokens, cb_boosted, cb_now,
             cb_last_check, cb_token, cb_buys, cb_locals, cb_fetch, last_buy, board,
             verifier, formatted, shortened, ranking, streamVars>>

(* ============================== the boost flow ========================= *)
(* bot.py:50-60 *)
BOOST_OPTIONS ==
    ("4h" :> [duration |-> 4 * 3600, cost |-> 15]) @@
    ("8h" :> [duration |-> 8 * 3600, cost |-> 20]) @@
    ("12h" :> [duration |-> 12 * 3600, cost |-> 30]) @@
    ("24h" :> [duration |-> 24 * 3600, cost |-> 50]) @@
    ("48h" :> [duration |-> 48 * 3600, cost |-> 80]) @@
    ("72h" :> [duration |-> 72 * 3600, cost |-> 120]) @@
    ("1week" :> [duration |-> 7 * 24 * 3600, cost |-> 220]) @@
    ("2weeks" :> [duration |-> 14 * 24 * 3600, cost |-> 410]) @@
    ("1month" :> [duration |-> 30 * 24 * 3600, cost |-> 780])

(* bot.py:32 *)
BOOST_RECEIVER == "0x7338ef163ee710923803cb0dd60b5b02cddc5fbafef417342e1bbf1fba20e702"

(* sui.py:17: amounts on the chain are in MIST, 1e9 to the SUI; an amount  *)
(* is kept as its whole SUI and the MIST left over                         *)
MIST_PER_SUI == 1000 * 1000 * 1000

Mist(sui, mist) == [sui |-> sui, mist |-> mist]

(* sui.py:17-18: float(amount) / 1e9 >= expected_sui; the costs are whole  *)
(* numbers of SUI and 0 <= mist < MIST_PER_SUI, so the MIST left over       *)
(* never decide                                                             *)
AmountCovers(amount, expected_sui) ==
    /\ amount.mist \in 0..(MIST_PER_SUI - 1)
    /\ amount.sui >= expected_sui

PendingKeys == {"boost_token", "boost_duration", "boost_cost", "boost_seconds"}

(* What the Sui node answers for a transaction hash: hOK pays 15 SUI to the *)
(* receiver, hLOW pays one MIST less, hOTHER pays 15 SUI to someone else,   *)
(* hFAILED is the payment of hOK in a transaction that failed, hNONE is no  *)
(* transaction.                                                             *)
ChainTx(h) ==
    CASE h = "hOK" ->
           [found |-> TRUE, status |-> "success",
            events |-> <<[transfer |-> FALSE, recipient |-> None, amount |-> Mist(0, 0)],
                         [transfer |-> TRUE, recipient |-> BOOST_RECEIVER,
                          amount |-> Mist(15, 0)]>>]
      [] h = "hLOW" ->
           [found |-> TRUE, status |-> "success",
            events |-> <<[transfer |-> TRUE, recipient |-> BOOST_RECEIVER,
                          amount |-> Mist(14, MIST_PER_SUI - 1)]>>]
      [] h = "hOTHER" ->
           [found |-> TRUE, status |-> "success",
            events |-> <<[transfer |-> TRUE, recipient |-> "0xsomeoneelse",
                          amount |-> Mist(15, 0)]>>]
      [] h = "hFAILED" ->
           [found |-> TRUE, status |-> "failure",
            events |-> <<[transfer |-> TRUE, recipient |-> BOOST_RECEIVER,
                          amount |-> Mist(15, 0)]>>]
      [] OTHER -> [found |-> FALSE, status |-> None, events |-> <<>>]

(* sui.py:5-22: the transaction is fetched (a failure to fetch it is caught *)
(* and gives False), its status must be "success" and one of its transfer  *)
(* events must pay the receiver at least the expected amount.              *)
SuiVerifyPayment(txn_hash, expected_sui, receiver) ==
    LET txn == ChainTx(txn_hash)
    IN /\ txn.found
       /\ txn.status = "success"
       /\ \E i \in DOMAIN txn.events :
             /\ txn.events[i].transfer
             /\ txn.events[i].recipient = receiver
             /\ AmountCovers(txn.events[i].amount, expected_sui)

(* sui_api.py:256-299: the placeholder, "always return True" *)
SuiApiVerifyPayment(transaction_hash, expected_receiver, expected_amount_sui) == TRUE

(* bot.py:22 imports verify_payment from sui_api, whose placeholder is a    *)
(* plain function: where the call of bot.py:540 can be awaited it gives     *)
(* True, where it cannot the await raises.  The call has the parameters,    *)
(* and the awaitability, of sui.py's verify_payment; with that module the   *)
(* result is its check, and the loading of its configuration (sui.py:6),    *)
(* outside its try, can raise.                                              *)
Verifiers == {"sui_api", "sui"}

VerifyOutcomes_once(txn_hash, boost_cost) ==
    IF last_confirm.wrote /\ last_confirm.hash = txn_hash THEN {"false", "raised"}
    ELSE IF verifier = "sui_api" THEN {"true", "raised"}
    ELSE {IF SuiVerifyPayment(txn_hash, boost_cost, BOOST_RECEIVER)
          THEN "true" ELSE "false", "raised"}

VerifyOutcomes(txn_hash, boost_cost) ==
    IF verifier = "sui_api"
    THEN {IF SuiApiVerifyPayment(txn_hash, boost_cost, BOOST_RECEIVER)
          THEN "true" ELSE "false", "raised"}
    ELSE {IF SuiVerifyPayment(txn_hash, boost_cost, BOOST_RECEIVER)
          THEN "true" ELSE "false", "raised"}

(* what the user may type after /boost and /confirm, and the buttons pressed *)
BoostArgs == {<<>>, <<"0xaaaaaaaa01">>, <<"0xbbbbbbbb02">>, <<"aaaa">>, <<"0xaaaaaaaa01", "aaaa">>}
ConfirmArgs == {<<>>, <<"hOK ">>, <<"hLOW">>, <<"hOTHER">>, <<"hFAILED">>, <<"hNONE">>}
BoostButtons == {"boost_4h", "boost_1month", "boost_bogus"}

(* bot.py:475: query.data.split("_")[1] *)
DurationKey(data) ==
    CASE data = "boost_4h" -> "4h" [] data = "boost_1month" -> "1month" [] OTHER -> "bogus"

(* bot.py:423-468 *)
boost_command ==
    /\ \E args \in BoostArgs, symbol_ok \in BOOLEAN, reply_ok \in BOOLEAN :
        LET bad_args == Len(args) # 1
            token_address == args[1]
            invalid == ~StartsWith(token_address, "0x")
            symbol == IF symbol_ok THEN TokenInfo(token_address).symbol ELSE "TOKEN"
            nfaults == (IF reply_ok THEN 0 ELSE 1) + (IF symbol_ok THEN 0 ELSE 1)
        IN /\ faults + nfaults <= MaxFaults
           /\ faults' = faults + nfaults
           /\ (bad_args \/ invalid) => symbol_ok
           /\ user_data' = IF bad_args \/ invalid THEN user_data
                           ELSE Put(Put(user_data, "boost_token", token_address),
                                    "boost_token_symbol", symbol)
           /\ boost_log.commands < MaxBoostCommands
           /\ boost_log' = IF bad_args \/ invalid
                            THEN [boost_log EXCEPT !.commands = @ + 1]
                            ELSE [boost_log EXCEPT !.issued = @ \cup {token_address},
                                                   !.commands = @ + 1]
    /\ UNCHANGED <<groups, boosts, conv, last_op, last_confirm, jobVars>>

(* bot.py:470-509; the handler is registered outside the conversation       *)
(* (bot.py:1041), behind it: it gets the buttons pressed in a chat whose    *)
(* conversation is not in CHOOSING, and what it returns is dropped.         *)
boost_callback ==
    /\ \E c \in Chats : conv[c] # CHOOSING
    /\ \E data \in BoostButtons, answer_ok \in BOOLEAN, reply_ok \in BOOLEAN :
        LET duration_key == DurationKey(data)
            unknown == duration_key \notin DOMAIN BOOST_OPTIONS
            no_token == "boost_token" \notin DOMAIN user_data
            nfaults == (IF answer_ok THEN 0 ELSE 1) + (IF reply_ok THEN 0 ELSE 1)
        IN /\ faults + nfaults <= MaxFaults
           /\ faults' = faults + nfaults
           /\ ~answer_ok => reply_ok
           /\ user_data' =
                 IF ~answer_ok \/ unknown \/ no_token THEN user_data
                 ELSE Put(Put(Put(user_data, "boost_duration", duration_key),
                              "boost_cost", BOOST_OPTIONS[duration_key].cost),
                          "boost_seconds", BOOST_OPTIONS[duration_key].duration)
           /\ boost_log' = IF ~answer_ok \/ unknown \/ no_token THEN boost_log
                            ELSE [boost_log EXCEPT !.selected = boost_log.issued]
    /\ UNCHANGED <<groups, boosts, conv, last_op, last_confirm, jobVars>>

Expiration_no_now(t, boost_seconds) == boost_seconds

(* bot.py:554 *)
Expiration(t, boost_seconds) == t + boost_seconds

(* bot.py:511-601 *)
confirm_boost ==
    /\ \E args \in ConfirmArgs :
       \E txn_hash \in {IF Len(args) = 1 THEN Strip(args[1]) ELSE "none"},
          v \in {"true", "false", "raised"},
          fail_at \in {"none", "first_reply", "result", "announce"},
          error_edit_ok \in BOOLEAN :
        LET bad_args == Len(args) # 1
            pending == PendingKeys \subseteq DOMAIN user_data
            reached == ~bad_args /\ pending /\ fail_at # "first_reply"
            verified == IF reached THEN v ELSE "not_reached"
            handled == \/ verified = "raised"
                       \/ verified \in {"true", "false"} /\ fail_at = "result"
                       \/ verified = "true" /\ fail_at = "announce"
            wrote == verified = "true"
            cleared == wrote /\ fail_at # "result"
            nfaults == (IF fail_at = "none" THEN 0 ELSE 1)
                         + (IF error_edit_ok THEN 0 ELSE 1)
                         + (IF verified = "raised" /\ verifier = "sui" THEN 1 ELSE 0)
        IN /\ faults + nfaults <= MaxFaults
           /\ faults' = faults + nfaults
           \* only the calls that are reached can fail
           /\ reached => v \in VerifyOutcomes(txn_hash, user_data["boost_cost"])
           /\ ~reached => v = "raised" /\ fail_at \in {"none", "first_reply"}
           /\ reached /\ v = "raised" => fail_at = "none"
           /\ reached /\ v = "false" => fail_at \in {"none", "result"}
           /\ ~handled => error_edit_ok
           /\ boosts' = IF wrote
                        THEN InsertOrReplace(boosts, "token_address",
                                 [token_address |-> user_data["boost_token"],
                                  expiration_timestamp |->
                                      Expiration(now, user_data["boost_seconds"])])
                        ELSE boosts
           /\ user_data' = IF cleared
                           THEN Del(user_data, PendingKeys \cup {"boost_token_symbol"})
                           ELSE user_data
           /\ last_confirm' =
                 [hash |-> IF reached THEN txn_hash ELSE "none",
                  token |-> IF reached THEN user_data["boost_token"] ELSE "none",
                  duration |-> IF reached THEN user_data["boost_duration"] ELSE "none",
                  cost |-> IF reached THEN user_data["boost_cost"] ELSE 0,
                  at |-> now,
                  verified |-> verified,
                  wrote |-> wrote,
                  shown |-> IF fail_at = "first_reply" THEN "none"
                            ELSE IF bad_args THEN "usage"
                            ELSE IF ~pending THEN "no_pending_boost"
                            ELSE IF handled
                                 THEN (IF error_edit_ok THEN "error_occurred"
                                       ELSE IF fail_at = "announce" THEN "boost_activated"
                                       ELSE "verifying")
                            ELSE IF verified = "true" THEN "boost_activated"
                            ELSE "verification_failed",
                  announced |-> cleared /\ fail_at # "announce",
                  chat_failed |-> fail_at # "none" \/ ~error_edit_ok,
                  after_failed |-> last_confirm.verified = "false",
                  repeated |-> last_confirm.wrote /\ last_confirm.hash = txn_hash,
                  replaced |-> wrote /\ \E r \in boosts :
                                  /\ r.token_address = user_data["boost_token"]
                                  /\ r.expiration_timestamp #
                                        Expiration(now, user_data["boost_seconds"])]
    /\ UNCHANGED <<groups, conv, last_op, boost_log, jobVars>>

(* ---------------------------- the boost flow --------------------------- *)
InitBoost == InitWith({<<EmptyDict, EmptyDict>>}, Verifiers)

NextBoost ==
    \/ AdvanceTime
    \/ boost_command
    \/ boost_callback
    \/ confirm_boost

SpecBoost == InitBoost /\ [][NextBoost]_vars

(* ============================ the setup wizard ========================= *)
(* update.effective_chat.title *)
Title(c) == IF c = "g1" THEN "Group One" ELSE "Group Two"

(* the dictionary under user_data['settings'], or {} *)
Settings(ud) == Get(ud, "settings", EmptyDict)

(* user_data after: if 'settings' not in user_data: user_data['settings'] = {}; *)
(* user_data['settings'][k] = v                                                 *)
SetSetting(ud, k, v) == Put(ud, "settings", Put(Settings(ud), k, v))

(* one awaited call of the chat API fails, or none *)
Fault(ok) ==
    /\ faults + (IF ok THEN 0 ELSE 1) <= MaxFaults
    /\ faults' = faults + (IF ok THEN 0 ELSE 1)

(* last_op is what the last handler did when it was one that ends a        *)
(* session (finish_setup, cancel); any other handler resets it.            *)
Op(name, c, reply, ok, saved) ==
    IF name \in {"finish_setup", "cancel"}
    THEN [op |-> name, chat |-> c, reply |-> reply, delivered |-> ok, saved |-> saved]
    ELSE NoOp

(* the state the handler returns becomes the state of the conversation; a  *)
(* handler that raised leaves the conversation where it was                *)
Goto(c, ok, state) == IF ok THEN [conv EXCEPT ![c] = state] ELSE conv

(* the user opens the wizard in a chat while it is open in fewer than      *)
(* MaxConversations chats                                                  *)
MayOpen == Cardinality({c \in Chats : conv[c] # END}) < MaxConversations

(* bot.py:87-116, entry point of the conversation *)
start(c) ==
    /\ conv[c] = END
    /\ \E ok \in BOOLEAN :
        /\ Fault(ok)
        /\ IF c \in UserGroups
           THEN /\ user_data' = Put(Put(user_data, "setup_group_id", c),
                                    "setup_group_name", Title(c))
                /\ conv' = Goto(c, ok, END)
                /\ last_op' = Op("start", c, "continue_in_private", ok, FALSE)
           ELSE IF "setup_group_id" \in DOMAIN user_data
           THEN /\ MayOpen
                /\ user_data' = user_data
                /\ conv' = Goto(c, ok, CHOOSING)
                /\ last_op' = Op("start", c, "menu", ok, FALSE)
           ELSE /\ user_data' = user_data
                /\ conv' = Goto(c, ok, END)
                /\ last_op' = Op("start", c, "add_me_to_a_group", ok, FALSE)
    /\ UNCHANGED <<groups, boosts, last_confirm, boost_log, jobVars>>

(* bot.py:118-131, entry point for any text that is not a command, in any chat *)
start_private(c) ==
    /\ conv[c] = END
    /\ \E ok \in BOOLEAN :
        /\ Fault(ok)
        /\ IF "setup_group_id" \notin DOMAIN user_data
           THEN /\ conv' = Goto(c, ok, END)
                /\ last_op' = Op("start_private", c, "add_me_to_a_group", ok, FALSE)
           ELSE /\ MayOpen
                /\ conv' = Goto(c, ok, CHOOSING)
                /\ last_op' = Op("start_private", c, "menu", ok, FALSE)
    /\ UNCHANGED <<user_data, groups, boosts, last_confirm, boost_log, jobVars>>

OPTIONAL_FIELDS == {"website", "telegram_link", "twitter_link", "media_file_id"}

FieldOf ==
    (INPUT_TOKEN :> "token_address") @@ (INPUT_MIN_BUY :> "min_buy_usd") @@
    (INPUT_EMOJI :> "emoji") @@ (INPUT_WEBSITE :> "website") @@
    (INPUT_TELEGRAM :> "telegram_link") @@ (INPUT_TWITTER :> "twitter_link") @@
    (INPUT_MEDIA :> "media_file_id")

(* the user asks for, and sends, an optional field while the session holds *)
(* fewer than MaxOptional of them, or to set one it holds again            *)
MayCollect(field) ==
    \/ field \notin OPTIONAL_FIELDS
    \/ field \in DOMAIN Settings(user_data)
    \/ Cardinality(DOMAIN Settings(user_data) \cap OPTIONAL_FIELDS) < MaxOptional

(* bot.py:140-166: the buttons that ask for a field *)
MenuTarget ==
    ("set_token" :> INPUT_TOKEN) @@ ("set_min_buy" :> INPUT_MIN_BUY) @@
    ("set_emoji" :> INPUT_EMOJI) @@ ("set_website" :> INPUT_WEBSITE) @@
    ("set_telegram" :> INPUT_TELEGRAM) @@ ("set_twitter" :> INPUT_TWITTER) @@
    ("set_media" :> INPUT_MEDIA)

(* bot.py:133-166: in CHOOSING every button pressed in the chat comes here; *)
(* a choice that is none of the menu's returns None, which keeps the state  *)
menu_choice(c) ==
    /\ conv[c] = CHOOSING
    /\ \E choice \in DOMAIN MenuTarget \cup {"boost_4h"}, answer_ok \in BOOLEAN, ok \in BOOLEAN :
        /\ Fault(answer_ok /\ ok)
        /\ ~answer_ok => ok
        /\ choice \notin DOMAIN MenuTarget => ok
        /\ choice \in DOMAIN MenuTarget => MayCollect(FieldOf[MenuTarget[choice]])
        /\ IF choice \in DOMAIN MenuTarget
           THEN /\ conv' = Goto(c, answer_ok /\ ok, MenuTarget[choice])
                /\ last_op' = Op("menu_handler", c, IF answer_ok THEN choice ELSE "none",
                                 answer_ok /\ ok, FALSE)
           ELSE /\ conv' = conv
                /\ last_op' = Op("menu_handler", c, "none", FALSE, FALSE)
    /\ UNCHANGED <<user_data, groups, boosts, last_confirm, boost_log, jobVars>>

REQUIRED_FIELDS == {"token_address", "min_buy_usd", "emoji"}

(* bot.py:619-645 with database.py:23-36: INSERT OR REPLACE of the eight    *)
(* columns named; token_symbol is not among them and takes its default      *)
save_group_settings_by_token(table, group_id, settings) ==
    {r \in table : r.token_address # Get(settings, "token_address", None)}
        \cup {[group_id |-> group_id,
                token_address |-> Get(settings, "token_address", None),
                token_symbol |-> "TOKEN",
                min_buy_usd |-> Get(settings, "min_buy_usd", 0),
                emoji |-> Get(settings, "emoji", "fire"),
                website |-> Get(settings, "website", None),
                telegram_link |-> Get(settings, "telegram_link", None),
                twitter_link |-> Get(settings, "twitter_link", None),
                media_file_id |-> Get(settings, "media_file_id", None)]}

save_group_settings(table, group_id, settings) ==
    InsertOrReplace(table, "group_id",
        [group_id |-> group_id,
         token_address |-> Get(settings, "token_address", None),
         token_symbol |-> "TOKEN",
         min_buy_usd |-> Get(settings, "min_buy_usd", 0),
         emoji |-> Get(settings, "emoji", "fire"),
         website |-> Get(settings, "website", None),
         telegram_link |-> Get(settings, "telegram_link", None),
         twitter_link |-> Get(settings, "twitter_link", None),
         media_file_id |-> Get(settings, "media_file_id", None)])

(* bot.py:168-229: the choice finish_setup of menu_handler *)
finish_setup(c) ==
    /\ conv[c] = CHOOSING
    /\ \E fail_at \in {"none", "answer", "save", "reply", "group_send"},
          symbol_ok \in BOOLEAN :
        LET settings == Settings(user_data)
            no_group == "setup_group_id" \notin DOMAIN user_data
            missing == REQUIRED_FIELDS \ DOMAIN settings
            accepted == fail_at # "answer" /\ ~no_group /\ missing = {}
            symbol == IF symbol_ok THEN TokenInfo(settings["token_address"]).symbol
                      ELSE "TOKEN"
            with_symbol == Put(settings, "token_symbol", symbol)
        IN /\ Fault(fail_at = "none")
           /\ ~accepted => symbol_ok /\ fail_at \notin {"save", "group_send"}
           /\ IF fail_at = "answer"
              THEN /\ UNCHANGED <<user_data, groups, conv>>
                   /\ last_op' = Op("finish_setup", c, "none", FALSE, FALSE)
              ELSE IF no_group
              THEN /\ UNCHANGED <<user_data, groups>>
                   /\ conv' = Goto(c, fail_at = "none", END)
                   /\ last_op' = Op("finish_setup", c, "no_group_selected",
                                    fail_at = "none", FALSE)
              ELSE IF missing # {}
              THEN /\ UNCHANGED <<user_data, groups>>
                   /\ conv' = Goto(c, fail_at = "none", CHOOSING)
                   /\ last_op' = Op("finish_setup", c, "setup_incomplete",
                                    fail_at = "none", FALSE)
              \* save_group_settings catches what the database raises and
              \* returns False, which menu_handler does not look at
              ELSE /\ groups' = IF fail_at = "save" THEN groups
                                ELSE save_group_settings(groups,
                                         user_data["setup_group_id"], with_symbol)
                   /\ user_data' = IF fail_at \in {"none", "save"} THEN EmptyDict
                                   ELSE Put(user_data, "settings", with_symbol)
                   /\ conv' = Goto(c, fail_at \in {"none", "save"}, END)
                   /\ last_op' = Op("finish_setup", c, "setup_complete",
                                    fail_at # "reply", fail_at # "save")
    /\ UNCHANGED <<boosts, last_confirm, boost_log, jobVars>>

(* bot.py:133-229 *)
menu_handler(c) == menu_choice(c) \/ finish_setup(c)

(* what the user may send in the input states *)
TokenTexts == {"0xaaaaaaaa01", " 0xaaaaaaaa01", "0xshort", "aaaa"}
MinBuyTexts == {"50", "0", "abc", "nan"}
EmojiTexts == {"rocket", "elevenchars"}
WebsiteTexts == {"skip", "SKIP", "example.com", "https://example.com"}
LinkTexts == {"SKIP", "t.me/x"}
MediaMessages ==
    {[text |-> "skip", photo |-> None, animation |-> None],
     [text |-> "abc", photo |-> None, animation |-> None],
     [text |-> None, photo |-> "file1", animation |-> None],
     [text |-> None, photo |-> None, animation |-> "anim1"]}

Digits == <<"0", "1", "2", "3", "4", "5", "6", "7", "8", "9">>

DigitValue(ch) == (CHOOSE i \in DOMAIN Digits : Digits[i] = ch) - 1

RECURSIVE Whole(_)
Whole(cs) == IF cs = <<>> THEN 0
             ELSE 10 * Whole(SubSeq(cs, 1, Len(cs) - 1)) + DigitValue(cs[Len(cs)])

(* float("nan"): the value no comparison holds of.  No amount is negative, *)
(* and the value is kept apart from the amounts by being one.              *)
NaN == 0 - 1

(* float(text) of a text of digits, in cents, and of "nan"; any other text *)
(* of Texts is a ValueError                                                *)
ParseFloat(text) ==
    LET cs == Chars(text)
    IN IF cs # <<>> /\ \A i \in DOMAIN cs : \E d \in DOMAIN Digits : Digits[d] = cs[i]
       THEN [ok |-> TRUE, value |-> 100 * Whole(cs)]
       ELSE IF text = "nan" THEN [ok |-> TRUE, value |-> NaN]
       ELSE [ok |-> FALSE, value |-> 0]

LowerChar(ch) ==
    CASE ch = "S" -> "s" [] ch = "K" -> "k" [] ch = "I" -> "i" [] ch = "P" -> "p"
      [] OTHER -> ch

(* str.lower() *)
Lower(text) == Text([i \in DOMAIN Chars(text) |-> LowerChar(Chars(text)[i])])

(* a + b *)
Concat(a, b) == Text(Chars(a) \o Chars(b))

(* the handlers of the input states: the field is stored, then the reply is *)
(* sent, then the state is returned                                         *)
Store(c, name, field, value, ok) ==
    /\ MayCollect(field)
    /\ user_data' = SetSetting(user_data, field, value)
    /\ conv' = Goto(c, ok, CHOOSING)
    /\ last_op' = Op(name, c, "saved", ok, FALSE)

Reject(c, name, state, ok) ==
    /\ user_data' = user_data
    /\ conv' = Goto(c, ok, state)
    /\ last_op' = Op(name, c, "rejected", ok, FALSE)

ValidToken(token) == StartsWith(token, "0x") /\ StrLen(token) >= 10

(* bot.py:231-250 *)
receive_token(c) ==
    /\ conv[c] = INPUT_TOKEN
    /\ \E text \in TokenTexts, ok \in BOOLEAN :
        /\ Fault(ok)
        /\ \E token \in {Strip(text)} :
             IF ~ValidToken(token)
             THEN Reject(c, "receive_token", INPUT_TOKEN, ok)
             ELSE Store(c, "receive_token", "token_address", token, ok)
    /\ UNCHANGED <<groups, boosts, last_confirm, boost_log, jobVars>>

(* bot.py:256: not (min_buy <= 0) *)
PositiveMinBuy(min_buy) == ~(min_buy # NaN /\ min_buy <= 0)

(* bot.py:252-272 *)
receive_min_buy(c) ==
    /\ conv[c] = INPUT_MIN_BUY
    /\ \E text \in MinBuyTexts, ok \in BOOLEAN :
        /\ Fault(ok)
        /\ \E parsed \in {ParseFloat(Strip(text))} :
             IF ~parsed.ok \/ ~PositiveMinBuy(parsed.value)
             THEN Reject(c, "receive_min_buy", INPUT_MIN_BUY, ok)
             ELSE Store(c, "receive_min_buy", "min_buy_usd", parsed.value, ok)
    /\ UNCHANGED <<groups, boosts, last_confirm, boost_log, jobVars>>

(* bot.py:274-292 *)
receive_emoji(c) ==
    /\ conv[c] = INPUT_EMOJI
    /\ \E text \in EmojiTexts, ok \in BOOLEAN :
        /\ Fault(ok)
        /\ \E emoji \in {Strip(text)} :
             IF StrLen(emoji) > 10
             THEN Reject(c, "receive_emoji", INPUT_EMOJI, ok)
             ELSE Store(c, "receive_emoji", "emoji", emoji, ok)
    /\ UNCHANGED <<groups, boosts, last_confirm, boost_log, jobVars>>

(* bot.py:294-320 *)
receive_website(c) ==
    /\ conv[c] = INPUT_WEBSITE
    /\ \E text \in WebsiteTexts, ok \in BOOLEAN :
        /\ Fault(ok)
        /\ \E website \in {Strip(text)} :
             Store(c, "receive_website", "website",
                   IF Lower(website) = "skip" THEN None
                   ELSE IF StartsWith(website, "http://") \/ StartsWith(website, "https://")
                        THEN website
                        ELSE Concat("https://", website),
                   ok)
    /\ UNCHANGED <<groups, boosts, last_confirm, boost_log, jobVars>>

(* bot.py:322-344 and 346-368 *)
receive_link(c, state, name, field) ==
    /\ conv[c] = state
    /\ \E text \in LinkTexts, ok \in BOOLEAN :
        /\ Fault(ok)
        /\ \E link \in {Strip(text)} :
             Store(c, name, field, IF Lower(link) = "skip" THEN None ELSE link, ok)
    /\ UNCHANGED <<groups, boosts, last_confirm, boost_log, jobVars>>

receive_telegram(c) ==
    /\ conv[c] = INPUT_TELEGRAM
    /\ receive_link(c, INPUT_TELEGRAM, "receive_telegram", "telegram_link")

receive_twitter(c) ==
    /\ conv[c] = INPUT_TWITTER
    /\ receive_link(c, INPUT_TWITTER, "receive_twitter", "twitter_link")

(* bot.py:370-415 *)
receive_media(c) ==
    /\ conv[c] = INPUT_MEDIA
    /\ \E msg \in MediaMessages, ok \in BOOLEAN :
        /\ Fault(ok)
        /\ IF msg.text # None /\ Lower(Strip(msg.text)) = "skip"
           THEN Store(c, "receive_media", "media_file_id", None, ok)
           ELSE IF msg.photo # None
           THEN Store(c, "receive_media", "media_file_id", msg.photo, ok)
           ELSE IF msg.animation # None
           THEN Store(c, "receive_media", "media_file_id", msg.animation, ok)
           ELSE Reject(c, "receive_media", INPUT_MEDIA, ok)
    /\ UNCHANGED <<groups, boosts, last_confirm, boost_log, jobVars>>

(* bot.py:417-421, the fallback of the conversation *)
cancel(c) ==
    /\ conv[c] # END
    /\ \E ok \in BOOLEAN :
        /\ Fault(ok)
        /\ user_data' = EmptyDict
        /\ conv' = Goto(c, ok, END)
        /\ last_op' = Op("cancel", c, "setup_cancelled", ok, FALSE)
    /\ UNCHANGED <<groups, boosts, last_confirm, boost_log, jobVars>>

(* ------------------------------ the wizard ----------------------------- *)
(* another group of the chat service tracks TokA already *)
WizardTables == { <<("g2" :> GroupRow(TokA, 5000, None)), EmptyDict>> }

InitWizard == InitWith(WizardTables, {"sui_api"})

(* bot.py:1015-1037: the updates of the user, routed by the conversation   *)
(* of the chat they arrive in                                              *)
NextWizard ==
    \E c \in Chats :
        \/ start(c)
        \/ start_private(c)
        \/ menu_handler(c)
        \/ receive_token(c)
        \/ receive_min_buy(c)
        \/ receive_emoji(c)
        \/ receive_website(c)
        \/ receive_telegram(c)
        \/ receive_twitter(c)
        \/ receive_media(c)
        \/ cancel(c)

SpecWizard == InitWizard /\ [][NextWizard]_vars

(* --------------------------- reconfiguration --------------------------- *)
(* group g1 has completed the wizard before: its row of groups has a        *)
(* website and a media id                                                   *)
ReconfigureTables ==
    { <<("g1" :> [GroupRow(TokB, 5000, "file1") EXCEPT !.website = "https://example.com"]),
        EmptyDict>> }

InitReconfigure == InitWith(ReconfigureTables, {"sui_api"})

SpecReconfigure == InitReconfigure /\ [][NextWizard]_vars

(* -------------------- the wizard and the boost flow ------------------- *)
(* the handlers of the wizard and of the boost flow serve the same user and *)
(* share context.user_data (bot.py:1015-1042)                               *)
(* The user has sent /start in group g1 and opened the wizard in the        *)
(* private chat (bot.py:87-131), and has sent /boost for TokA and chosen 4h *)
(* (bot.py:423-508): user_data holds the keys of both flows.                *)
SharedUserData ==
    ("setup_group_id" :> "g1") @@ ("setup_group_name" :> Title("g1"))
      @@ ("boost_token" :> TokA) @@ ("boost_token_symbol" :> TokenInfo(TokA).symbol)
      @@ ("boost_duration" :> "4h") @@ ("boost_cost" :> BOOST_OPTIONS["4h"].cost)
      @@ ("boost_seconds" :> BOOST_OPTIONS["4h"].duration)

SharedConv == [c \in Chats |-> IF c = PrivateChat THEN CHOOSING ELSE END]

InitShared == InitFrom(WizardTables, {"sui_api"}, {SharedUserData}, {SharedConv})

NextShared ==
    \/ \E c \in Chats :
           \/ menu_handler(c)
           \/ receive_token(c)
           \/ receive_min_buy(c)
           \/ receive_emoji(c)
           \/ cancel(c)
    \/ boost_callback
    \/ confirm_boost

SpecShared == InitShared /\ [][NextShared]_vars

(* ========================== the alert formatters ======================= *)
(* the usd_value of a buy, in cents *)
FormatUsd == {d * 100 + c : d \in {0, 1, 4, 5, 17, 99, 100, 104, 250, 1000}, c \in {0, 99}}

(* the group settings handed to format_alert: without a buy_step, or with   *)
(* one                                                                      *)
FormatSettings == {EmptyDict} \cup {("buy_step" :> s) : s \in {0, 1, 5, 10}}

(* utils.py:12-53: a call of format_alert *)
format_alert ==
    /\ \E usd \in FormatUsd, group_settings \in FormatSettings :
          formatted' = [by |-> "format_alert", usd_value |-> usd,
                        configured |-> "buy_step" \in DOMAIN group_settings,
                        step |-> IF "buy_step" \in DOMAIN group_settings
                                 THEN group_settings["buy_step"] ELSE 1,
                        count |-> format_alert_emojis(usd, group_settings)]
    /\ UNCHANGED <<feedVars, trendVars, user_data, conv, verifier, last_op, last_confirm,
                   boost_log, shortened, ranking, streamVars>>

(* bot.py:861-863: the formatter inside check_buys, whose step is 5 for     *)
(* every group                                                              *)
check_buys_format ==
    /\ \E usd \in FormatUsd :
          formatted' = [by |-> "check_buys", usd_value |-> usd,
                        configured |-> TRUE, step |-> EMOJI_STEP_USD \div 100,
                        count |-> EmojiCount(usd)]
    /\ UNCHANGED <<feedVars, trendVars, user_data, conv, verifier, last_op, last_confirm,
                   boost_log, shortened, ranking, streamVars>>

InitFormat == InitWith({<<EmptyDict, EmptyDict>>}, {"sui_api"})

NextFormat ==
    \/ format_alert
    \/ check_buys_format

SpecFormat == InitFormat /\ [][NextFormat]_vars

(* ============================ shorten_address ========================== *)
(* a value handed to shorten_address: None, or a str as its characters *)
PyNone == [kind |-> "None", chars |-> <<>>]

PyStr(cs) == [kind |-> "str", chars |-> cs]

ExampleAddress ==
    <<"0", "x", "1", "2", "3", "4", "5", "6", "7", "8", "9", "0", "a", "b", "c", "d", "e", "f">>

(* the addresses tried: None, '', and every slice of the example address *)
Addresses ==
    {PyNone} \cup
    {PyStr(SubSeq(ExampleAddress, i, j)) : i \in 1..Len(ExampleAddress),
                                          j \in 0..Len(ExampleAddress)}

(* utils.py:6-10 *)
shorten_address_keep4(address) ==
    IF address.kind = "None" \/ address.chars = <<>> \/ Len(address.chars) < 10
    THEN address
    ELSE PyStr(SubSeq(address.chars, 1, 4) \o <<".", ".", ".">> \o
               SubSeq(address.chars, Len(address.chars) - 3, Len(address.chars)))
shorten_address(address) ==
    IF address.kind = "None" \/ address.chars = <<>> \/ Len(address.chars) < 10
    THEN address
    ELSE PyStr(SubSeq(address.chars, 1, 6) \o <<".", ".", ".">> \o
               SubSeq(address.chars, Len(address.chars) - 3, Len(address.chars)))

(* a call of shorten_address *)
shorten_address_call ==
    /\ \E address \in Addresses :
          shortened' = [called |-> TRUE, address |-> address,
                        result |-> shorten_address(address)]
    /\ UNCHANGED <<feedVars, trendVars, user_data, conv, verifier, last_op, last_confirm,
                   boost_log, formatted, ranking, streamVars>>

InitShorten == InitWith({<<EmptyDict, EmptyDict>>}, {"sui_api"})

NextShorten == shorten_address_call

SpecShorten == InitShorten /\ [][NextShorten]_vars

(* ===================== the ranking of the leaderboard =================== *)
(* bot.py:691-699: an entry of token_data, the i-th of a pool in which one  *)
(* token in three is boosted, remaining times and volumes repeat, and a     *)
(* boost can have run out since the boosts were read                        *)
RankEntry(i) ==
    [address |-> <<"0x", i>>, symbol |-> "TOKEN", market_cap |-> 0, price_change |-> 0,
     volume_30m |-> ((i * 7) % 5) * 10000,
     is_boosted |-> i % 3 = 0,
     boost_remaining |-> IF i % 3 = 0 THEN ((i \div 3) % 3) * 3600 ELSE 0]

(* the token_data lists ranked: the first n entries of the pool, from any   *)
(* entry on, in either direction                                            *)
RankInputs ==
    {[k \in 1..n |-> RankEntry(((s + d * k) % MaxRanked) + 1)] :
        n \in 0..MaxRanked, s \in 0..(MaxRanked - 1), d \in {1, MaxRanked - 1}}

(* bot.py:703-707: sort, then take the top 10 *)
rank_tokens ==
    /\ \E token_data \in RankInputs :
          ranking' = [called |-> TRUE, token_data |-> token_data,
                      top_tokens |-> TopTokens(SortTokens(token_data))]
    /\ UNCHANGED <<feedVars, trendVars, user_data, conv, verifier, last_op, last_confirm,
                   boost_log, formatted, shortened, streamVars>>

InitRank == InitWith({<<EmptyDict, EmptyDict>>}, {"sui_api"})

NextRank == rank_tokens

SpecRank == InitRank /\ [][NextRank]_vars

(* ========================= the streaming feed ========================== *)
botVars == <<feedVars, trendVars, user_data, conv, verifier, last_op, last_confirm,
             boost_log, formatted, shortened, ranking>>

notStreamVars == <<botVars, wsListenVars>>

(* the event of a message: parsedJson['amount'] and event.get('sender') *)
StreamEvents == {[amount |-> a, sender |-> s] : a \in {0 - 5, 0, 10},
                                              s \in {"0xbuyer00000001", None}}

(* sui_api.py:29-66: the price fetch_token_info answers, 0 from default_info *)
StreamPrices == {0, 2}

(* sui_api.py:161-168 *)
BuyData(n, event, price) ==
    [transaction_id |-> n,
     token_address |-> "0xaaaaaaaa01",
     buyer_address |-> IF event.sender = None THEN "unknown" ELSE event.sender,
     amount |-> event.amount,
     usd_value |-> event.amount * price]

(* sui_api.py:170: only a buy with a positive usd_value is queued *)
ValidBuy(buy_data) == buy_data.usd_value > 0

(* with _queue_lock: the lock can be taken when nobody holds it *)
CanAcquire_unlocked(lock) == TRUE
CanAcquire(lock) == lock = "free"

(* sui_api.py:222-233: run_forever connects; a refused connection ends in   *)
(* on_error and on_close                                                    *)
ws_run ==
    /\ ws_state = "connecting"
    /\ \/ ws_state' = "open" /\ UNCHANGED ws_drops
       \/ ws_drops < MaxDrops /\ ws_state' = "closed" /\ ws_drops' = ws_drops + 1
    /\ UNCHANGED <<ws_received, on_msg, queue_lock, buy_event_queue, fetch_call, produced,
                   returned, bs_state, bs_subscribed, bs_drops>>
    /\ UNCHANGED notStreamVars

(* sui_api.py:194-215: the subscription request is sent *)
on_open ==
    /\ ws_state = "open"
    /\ ws_state' = "subscribed"
    /\ UNCHANGED <<ws_drops, ws_received, on_msg, queue_lock, buy_event_queue, fetch_call,
                   produced, returned, bs_state, bs_subscribed, bs_drops>>
    /\ UNCHANGED notStreamVars

(* sui_api.py:107-169: a message is parsed into buy_data; sui_api.py:170 *)
on_message ==
    /\ ws_state = "subscribed"
    /\ on_msg.pc = "idle"
    /\ ws_received < MaxMessages
    /\ ws_received' = ws_received + 1
    /\ \E event \in StreamEvents, price \in StreamPrices :
          LET buy_data == BuyData(ws_received + 1, event, price)
          IN on_msg' = IF ValidBuy(buy_data)
                       THEN [pc |-> "acquire", buy_data |-> buy_data]
                       ELSE [pc |-> "idle", buy_data |-> None]
    /\ UNCHANGED <<ws_state, ws_drops, queue_lock, buy_event_queue, fetch_call, produced,
                   returned, bs_state, bs_subscribed, bs_drops>>
    /\ UNCHANGED notStreamVars

(* sui_api.py:171: with _queue_lock *)
on_message_lock ==
    /\ on_msg.pc = "acquire"
    /\ CanAcquire(queue_lock)
    /\ queue_lock' = "producer"
    /\ on_msg' = [on_msg EXCEPT !.pc = "locked"]
    /\ UNCHANGED <<ws_state, ws_drops, ws_received, buy_event_queue, fetch_call, produced,
                   returned, bs_state, bs_subscribed, bs_drops>>
    /\ UNCHANGED notStreamVars

(* sui_api.py:172-174: append, leave the with block, return *)
on_message_append ==
    /\ on_msg.pc = "locked"
    /\ buy_event_queue' = Append(buy_event_queue, on_msg.buy_data)
    /\ produced' = Append(produced, on_msg.buy_data)
    /\ queue_lock' = IF queue_lock = "producer" THEN "free" ELSE queue_lock
    /\ on_msg' = [pc |-> "idle", buy_data |-> None]
    /\ UNCHANGED <<ws_state, ws_drops, ws_received, fetch_call, returned, bs_state,
                   bs_subscribed, bs_drops>>
    /\ UNCHANGED notStreamVars

(* sui_api.py:183-187: the connection is lost between two messages *)
on_close ==
    /\ ws_state \in {"open", "subscribed"}
    /\ on_msg.pc = "idle"
    /\ ws_drops < MaxDrops
    /\ ws_state' = "closed"
    /\ ws_drops' = ws_drops + 1
    /\ UNCHANGED <<ws_received, on_msg, queue_lock, buy_event_queue, fetch_call, produced,
                   returned, bs_state, bs_subscribed, bs_drops>>
    /\ UNCHANGED notStreamVars

(* sui_api.py:188-189: time.sleep(5), then start_sui_event_listener() *)
on_close_restart ==
    /\ ws_state = "closed"
    /\ ws_state' = "connecting"
    /\ UNCHANGED <<ws_drops, ws_received, on_msg, queue_lock, buy_event_queue, fetch_call,
                   produced, returned, bs_state, bs_subscribed, bs_drops>>
    /\ UNCHANGED notStreamVars

(* sui_api.py:247: with _queue_lock *)
fetch_lock ==
    /\ fetch_call.pc = "idle"
    /\ CanAcquire(queue_lock)
    /\ queue_lock' = "consumer"
    /\ fetch_call' = [pc |-> "locked", buys |-> <<>>]
    /\ UNCHANGED <<ws_state, ws_drops, ws_received, on_msg, buy_event_queue, produced,
                   returned, bs_state, bs_subscribed, bs_drops>>
    /\ UNCHANGED notStreamVars

(* sui_api.py:248: buys = list(_buy_event_queue) *)
fetch_copy ==
    /\ fetch_call.pc = "locked"
    /\ fetch_call' = [pc |-> "copied", buys |-> buy_event_queue]
    /\ UNCHANGED <<ws_state, ws_drops, ws_received, on_msg, queue_lock, buy_event_queue,
                   produced, returned, bs_state, bs_subscribed, bs_drops>>
    /\ UNCHANGED notStreamVars

(* sui_api.py:249-250: _buy_event_queue.clear(), leave the with block and   *)
(* return buys                                                              *)
fetch_clear ==
    /\ fetch_call.pc = "copied"
    /\ buy_event_queue' = <<>>
    /\ queue_lock' = IF queue_lock = "consumer" THEN "free" ELSE queue_lock
    /\ returned' = returned \o fetch_call.buys
    /\ fetch_call' = [pc |-> "idle", buys |-> <<>>]
    /\ UNCHANGED <<ws_state, ws_drops, ws_received, on_msg, produced, bs_state,
                   bs_subscribed, bs_drops>>
    /\ UNCHANGED notStreamVars

(* sui_api.py:242-250 *)
fetch_recent_buys_from_queue == fetch_lock \/ fetch_copy \/ fetch_clear

(* buy_stream.py:62-70 and 102-107: run_ws_client connects, or the          *)
(* connection is refused and run_ws_client returns                          *)
run_ws_client ==
    /\ bs_state = "start"
    /\ \/ bs_state' = "connected" /\ UNCHANGED bs_drops
       \/ bs_drops < MaxDrops /\ bs_state' = "returned" /\ bs_drops' = bs_drops + 1
    /\ UNCHANGED <<ws_state, ws_drops, ws_received, on_msg, queue_lock, buy_event_queue,
                   fetch_call, produced, returned, bs_subscribed>>
    /\ UNCHANGED notStreamVars

(* buy_stream.py:71-85: the initial tokens are subscribed, then _ws_listen *)
bs_subscribe ==
    /\ bs_state = "connected"
    /\ bs_state' = "listening"
    /\ bs_subscribed' = Tokens
    /\ UNCHANGED <<ws_state, ws_drops, ws_received, on_msg, queue_lock, buy_event_queue,
                   fetch_call, produced, returned, bs_drops>>
    /\ UNCHANGED notStreamVars

(* buy_stream.py:55-60 and 86-92: the connection is closed or errors:       *)
(* _ws_listen leaves its loop, run_ws_client closes the session and         *)
(* returns; start_ws_thread then runs an event loop with no task            *)
(* (buy_stream.py:94-107)                                                   *)
bs_close ==
    /\ bs_state = "listening"
    /\ bs_drops < MaxDrops
    /\ bs_state' = "returned"
    /\ bs_subscribed' = {}
    /\ bs_drops' = bs_drops + 1
    /\ UNCHANGED <<ws_state, ws_drops, ws_received, on_msg, queue_lock, buy_event_queue,
                   fetch_call, produced, returned>>
    /\ UNCHANGED notStreamVars

InitStream == InitWith({<<EmptyDict, EmptyDict>>}, {"sui_api"})

(* the listener thread of sui_api (sui_api.py:236-239) *)
ListenerThread ==
    \/ ws_run
    \/ on_open
    \/ on_message
    \/ on_message_lock
    \/ on_message_append
    \/ on_close
    \/ on_close_restart

(* the thread of buy_stream (buy_stream.py:94-107) *)
WsThread ==
    \/ run_ws_client
    \/ bs_subscribe
    \/ bs_close

NextStream ==
    \/ ListenerThread
    \/ fetch_recent_buys_from_queue
    \/ WsThread

(* a thread that can take a step takes one; connections are lost at most    *)
(* MaxDrops times                                                           *)
SpecStream ==
    InitStream /\ [][NextStream]_vars /\ WF_vars(ListenerThread) /\ WF_vars(WsThread)

(* ==================== the listen loop of buy_stream ==================== *)
(* the messages ws.receive() can return: the notification of an event      *)
(* (method 'sui_subscribeEvent' with a result, numbered in order of         *)
(* arrival), the answer to a subscribe request, and CLOSED                  *)
Notification(n) == [type |-> "event", id |-> n]

ClosedMsg == [type |-> "closed", id |-> 0]

QueuedTokens == {subscribe_queue[i] : i \in DOMAIN subscribe_queue}

(* the main thread puts a token on subscribe_queue (buy_stream.py:15) *)
subscribe_put ==
    /\ bs_puts < MaxSubscribes
    /\ \E tok \in Tokens : subscribe_queue' = Append(subscribe_queue, tok)
    /\ bs_puts' = bs_puts + 1
    /\ UNCHANGED <<bs_pc, bs_msg, bs_token, bs_inbound, event_queue>>
    /\ UNCHANGED <<ws_state, ws_drops, ws_received, on_msg, queue_lock, buy_event_queue,
                   fetch_call, produced, returned, bs_state, bs_subscribed, bs_drops>>
    /\ UNCHANGED botVars

(* buy_stream.py:22-26: msg = await wait_for(ws.receive(), timeout=1.0); the *)
(* socket delivers a notification or CLOSED, or the wait times out           *)
ws_listen_receive ==
    /\ bs_state = "listening"
    /\ bs_pc = "receive"
    /\ \/ bs_msg' = NoMsg /\ UNCHANGED <<bs_inbound, bs_drops>>
       \/ /\ bs_inbound < MaxNotifications
          /\ bs_inbound' = bs_inbound + 1
          /\ bs_msg' = Notification(bs_inbound + 1)
          /\ UNCHANGED bs_drops
       \/ /\ bs_drops < MaxDrops
          /\ bs_drops' = bs_drops + 1
          /\ bs_msg' = ClosedMsg
          /\ UNCHANGED bs_inbound
    /\ bs_pc' = "subscribe"
    /\ UNCHANGED <<bs_token, subscribe_queue, event_queue, bs_puts>>
    /\ UNCHANGED <<ws_state, ws_drops, ws_received, on_msg, queue_lock, buy_event_queue,
                   fetch_call, produced, returned, bs_state, bs_subscribed>>
    /\ UNCHANGED botVars

(* buy_stream.py:28-37: new_token = subscribe_queue.get_nowait() and the    *)
(* subscribe request is sent; on Empty the inner loop is left               *)
ws_listen_take ==
    /\ bs_state = "listening"
    /\ bs_pc = "subscribe"
    /\ IF subscribe_queue = <<>>
       THEN /\ bs_pc' = "handle"
            /\ UNCHANGED <<bs_token, subscribe_queue>>
       ELSE /\ bs_token' = Head(subscribe_queue)
            /\ subscribe_queue' = Tail(subscribe_queue)
            /\ bs_pc' = "ack"
    /\ UNCHANGED <<bs_msg, bs_inbound, event_queue, bs_puts>>
    /\ UNCHANGED <<ws_state, ws_drops, ws_received, on_msg, queue_lock, buy_event_queue,
                   fetch_call, produced, returned, bs_state, bs_subscribed, bs_drops>>
    /\ UNCHANGED botVars

(* buy_stream.py:38-46: ack = await ws.receive() takes the next message of  *)
(* the socket, whatever it is: the answer to the request, with or without   *)
(* an error, or a notification that arrived before the answer; only         *)
(* resp.get("error") is looked at, and nothing is put on event_queue        *)
ws_listen_ack ==
    /\ bs_state = "listening"
    /\ bs_pc = "ack"
    /\ \/ bs_subscribed' = bs_subscribed \cup {bs_token} /\ UNCHANGED bs_inbound
       \/ UNCHANGED <<bs_subscribed, bs_inbound>>
       \/ /\ bs_inbound < MaxNotifications
          /\ bs_inbound' = bs_inbound + 1
          /\ bs_subscribed' = bs_subscribed \cup {bs_token}
    /\ bs_pc' = "subscribe"
    /\ UNCHANGED <<bs_msg, bs_token, subscribe_queue, event_queue, bs_puts>>
    /\ UNCHANGED <<ws_state, ws_drops, ws_received, on_msg, queue_lock, buy_event_queue,
                   fetch_call, produced, returned, bs_state, bs_drops>>
    /\ UNCHANGED botVars

(* buy_stream.py:48-60: the message received before the subscriptions is    *)
(* handled: the result of a notification is put on event_queue, CLOSED      *)
(* leaves the loop and run_ws_client returns (buy_stream.py:86-92)          *)
ws_listen_handle ==
    /\ bs_state = "listening"
    /\ bs_pc = "handle"
    /\ event_queue' = IF bs_msg.type = "event" THEN Append(event_queue, bs_msg.id)
                                               ELSE event_queue
    /\ IF bs_msg.type = "closed"
       THEN bs_state' = "returned" /\ bs_subscribed' = {}
       ELSE UNCHANGED <<bs_state, bs_subscribed>>
    /\ bs_pc' = "receive"
    /\ bs_msg' = NoMsg
    /\ UNCHANGED <<bs_token, bs_inbound, subscribe_queue, bs_puts>>
    /\ UNCHANGED <<ws_state, ws_drops, ws_received, on_msg, queue_lock, buy_event_queue,
                   fetch_call, produced, returned, bs_drops>>
    /\ UNCHANGED botVars

(* buy_stream.py:17-60 *)
_ws_listen == ws_listen_receive \/ ws_listen_take \/ ws_listen_ack \/ ws_listen_handle

InitListen == InitWith({<<EmptyDict, EmptyDict>>}, {"sui_api"})

NextListen ==
    \/ run_ws_client
    \/ bs_subscribe
    \/ _ws_listen
    \/ subscribe_put

(* the thread of buy_stream takes a step whenever it can: a wait for a       *)
(* message ends with a message or with the timeout                           *)
SpecListen ==
    InitListen /\ [][NextListen]_vars /\ WF_vars(run_ws_client \/ bs_subscribe \/ _ws_listen)

(* ======================= claims on the polling feed ==================== *)
BuyMessages(chat, tx) ==
    {i \in DOMAIN outbox : /\ outbox[i].kind \in {"buy_alert", "trending_buy"}
                           /\ outbox[i].chat = chat
                           /\ outbox[i].tx = tx}

(* C1: for each transaction_id every group, and the trending channel,     *)
(* receives at most one alert, whatever the feed returns again.           *)
C1_AtMostOneAlertPerTx ==
    \A tx \in TxIds : \A chat \in GroupIds \cup {TRENDING_CHANNEL} :
        Cardinality(BuyMessages(chat, tx)) <= 1

(* C2: a row of the buys table, once stored, is never changed or removed: *)
(* inserting a record whose transaction_id is stored keeps the first one.  *)
C2_FirstBuyRecordKept ==
    [][\A tx \in DOMAIN buys : tx \in DOMAIN buys' /\ buys'[tx] = buys[tx]]_vars

(* a buy whose transaction_id was already stored, for another token or at  *)
(* another time, has been processed and the stored row is the first one    *)
C2_Witness ==
    /\ last_buy.tx \in DOMAIN buys
    /\ ~last_buy.novel
    /\ \/ buys[last_buy.tx].token_address # last_buy.token
       \/ buys[last_buy.tx].timestamp # last_buy.at

(* C3: when a fetch of recent trades failed in a run, the checkpoint is    *)
(* the one the run started from (it was not advanced).                     *)
C3_FailedPollKeepsCheckpoint ==
    cb_fetch = "failed" =>
        \/ "last_check_timestamp" \notin DOMAIN bot_data
        \/ bot_data["last_check_timestamp"] = cb_last_check

Processed == last_buy.tx # "none" /\ last_buy.info_ok

(* C4: a processed buy is sent to exactly the groups that track its token  *)
(* and whose min_buy_usd is at most its usd_value; every alert delivered   *)
(* to a group is for the group's token and meets the group's minimum.      *)
C4_ThresholdGating ==
    /\ Processed =>
          last_buy.attempted =
              {g \in DOMAIN GroupById : /\ GroupById[g].token_address = last_buy.token
                                     /\ last_buy.usd_value >= GroupById[g].min_buy_usd}
    /\ \A i \in DOMAIN outbox :
          outbox[i].kind = "buy_alert" =>
              /\ outbox[i].chat \in DOMAIN GroupById
              /\ GroupById[outbox[i].chat].token_address = outbox[i].token
              /\ UsdOf(outbox[i].tx) >= GroupById[outbox[i].chat].min_buy_usd

(* the 49.99 buy was processed without an alert to a group whose minimum   *)
(* is 50.00, and the 50.00 buy was delivered to that group                 *)
C4_Witness ==
    /\ Processed
    /\ last_buy.usd_value = 4999
    /\ last_buy.attempted = {}
    /\ \E g \in DOMAIN GroupById :
          /\ GroupById[g].token_address = last_buy.token
          /\ GroupById[g].min_buy_usd = 5000
          /\ BuyMessages(g, "tx2") # {}

BoostedAt(tok, t) == tok \in DOMAIN BoostByToken /\ BoostByToken[tok] > t

(* C5: a processed buy below 200.00 whose token has no boost that expires  *)
(* after the time of the run is not sent to the trending channel.          *)
C5_TrendingGateNegative ==
    (last_buy.tx # "none" /\ last_buy.usd_value < TRENDING_MIN_USD
        /\ ~BoostedAt(last_buy.token, last_buy.at))
    => last_buy.trending = "none"

(* the 199.99 buy of a token without a boost was processed, its groups     *)
(* were alerted, and nothing went to the trending channel                  *)
C5_Witness ==
    /\ Processed
    /\ last_buy.usd_value = 19999
    /\ last_buy.token \notin DOMAIN BoostByToken
    /\ last_buy.attempted # {}
    /\ last_buy.trending = "none"
    /\ BuyMessages(TRENDING_CHANNEL, last_buy.tx) = {}

(* C6: every processed buy of at least 200.00, or of a token with an       *)
(* unexpired boost, is sent to the trending channel, whatever the groups'  *)
(* thresholds are.                                                         *)
C6_TrendingIndependentOfGroups ==
    (Processed /\ (last_buy.usd_value >= TRENDING_MIN_USD
                     \/ BoostedAt(last_buy.token, last_buy.at)))
    => last_buy.trending \in {"sent", "failed"}

(* ======================= claims on the leaderboard ===================== *)
Expired(tok, t) == tok \in DOMAIN BoostByToken /\ BoostByToken[tok] <= t

(* the trending gate of the last processed buy took an expired row as absent *)
C7_Gate ==
    (last_buy.tx # "none" /\ last_buy.usd_value < TRENDING_MIN_USD
        /\ Expired(last_buy.token, last_buy.at))
    => last_buy.trending = "none"

(* the leaderboard took every expired row as absent: no boost flag, no     *)
(* remaining time, no label, ranked by volume with the tokens without a    *)
(* row and behind every token whose boost has not expired                  *)
C7_Board ==
    LET top == board.top_tokens
        Plain(i) == ~BoostedAt(top[i].address, board.at)
    IN /\ \A i \in DOMAIN top :
             Expired(top[i].address, board.at) =>
                 /\ ~top[i].is_boosted
                 /\ top[i].boost_remaining = 0
                 /\ i \in DOMAIN board.entries => board.entries[i].boost_label = None
       /\ \A i, j \in DOMAIN top :
             (i < j /\ Plain(i) /\ Plain(j)) => top[i].volume_30m >= top[j].volume_30m
       /\ \A i, j \in DOMAIN top :
             (Expired(top[i].address, board.at) /\ BoostedAt(top[j].address, board.at))
                 => j < i

(* C7: a boosts row whose expiration_timestamp is at most the time of the  *)
(* run is taken as absent by the trending gate of check_buys (a buy below  *)
(* 200.00 is not sent to the trending channel) and by the ordering and the *)
(* label of the leaderboard of trend_alert, and no step removes a row of   *)
(* the boosts table.                                                       *)
C7_ExpiredBoostIsAbsent ==
    /\ [](C7_Gate /\ C7_Board)
    /\ [][DOMAIN BoostByToken \subseteq DOMAIN BoostByToken']_vars

(* after the boost of token A expired a 50.00 buy of A went to its group   *)
(* and not to the trending channel, and the leaderboard built afterwards   *)
(* lists token B, which has the larger volume and no boost, before A       *)
C7_Witness ==
    /\ Expired(TokA, board.at)
    /\ board.outcome = "sent_pinned"
    /\ Len(board.top_tokens) = 2
    /\ board.top_tokens[1].address = TokB
    /\ board.top_tokens[2].address = TokA
    /\ board.top_tokens[2].volume_30m > 0
    /\ \E tx \in DOMAIN buys :
          /\ buys[tx].token_address = TokA
          /\ buys[tx].timestamp >= BoostByToken[TokA]
          /\ BuyMessages("g1", tx) # {}
          /\ BuyMessages(TRENDING_CHANNEL, tx) = {}

(* ======================= claims on the boost flow ====================== *)
(* the transaction with hash h succeeded and transfers at least cost SUI   *)
(* to the receiving address                                                *)
PaymentFound(h, cost) ==
    LET txn == ChainTx(h)
    IN /\ txn.found
       /\ txn.status = "success"
       /\ \E i \in DOMAIN txn.events :
             /\ txn.events[i].transfer
             /\ txn.events[i].recipient = BOOST_RECEIVER
             /\ txn.events[i].amount.sui >= cost

(* C9: /confirm writes a row of boosts only if the transaction of the      *)
(* submitted hash succeeded and transfers at least the cost of the         *)
(* selected duration to the receiving address.                             *)
C9_BoostOnlyForVerifiedPayment ==
    last_confirm.wrote => PaymentFound(last_confirm.hash, last_confirm.cost)

(* a step of confirm_boost (the first two conjuncts follow from the third   *)
(* and are decided at once)                                                *)
ConfirmStep ==
    /\ now' = now
    /\ user_data' = user_data \/ PendingKeys \cap DOMAIN user_data' = {}
    /\ confirm_boost

(* what the claim says of the step that has just set last_confirm *)
C10_Outcome ==
    /\ last_confirm'.verified = "true" =>
           /\ last_confirm'.token \in DOMAIN BoostByToken'
           /\ "boost_duration" \in DOMAIN user_data
           /\ BoostByToken'[last_confirm'.token] =
                  now + BOOST_OPTIONS[user_data["boost_duration"]].duration
    /\ last_confirm'.verified = "false" =>
           /\ boosts' = boosts
           /\ \A k \in PendingKeys :
                  /\ k \in DOMAIN user_data /\ k \in DOMAIN user_data'
                  /\ user_data'[k] = user_data[k]
           /\ (last_confirm'.shown = "verification_failed"
                  \/ last_confirm'.chat_failed)

C11_Order ==
    /\ last_confirm'.verified # "not_reached" =>
           last_confirm'.token \in boost_log.selected
    /\ ~({"boost_token", "boost_duration"} \subseteq DOMAIN user_data) =>
           /\ last_confirm'.verified = "not_reached"
           /\ boosts' = boosts

(* C11: /confirm reaches the verification for a token only if /boost was    *)
(* issued for that token and a duration was selected after it; with no     *)
(* pending token or no pending duration it verifies nothing and writes     *)
(* nothing.                                                                *)
C11_BoostFlowOrder == [][C11_Order \/ ~ConfirmStep]_vars

(* what the claim says of a /confirm with the hash of the last activation *)
C12_Accepted ==
    (/\ last_confirm.wrote
     /\ last_confirm'.hash = last_confirm.hash
     /\ last_confirm'.verified \notin {"not_reached", "raised"}
     /\ PaymentFound(last_confirm'.hash, last_confirm'.cost))
    => /\ last_confirm'.verified = "true"
       /\ last_confirm'.wrote
       /\ "boost_seconds" \in DOMAIN user_data
       /\ [token_address |-> last_confirm'.token,
           expiration_timestamp |-> now + user_data["boost_seconds"]] \in boosts'

(* C12: after a boost was activated with the hash of a valid payment, a     *)
(* later flow (/boost, a duration, /confirm) with the same hash is         *)
(* verified again and writes its row of boosts: nothing remembers the      *)
(* hashes that were used.                                                  *)
C12_NoIdempotency == [][C12_Accepted \/ ~ConfirmStep]_vars

(* with sui.py's check, the hash of the 15 SUI payment activated a boost   *)
(* and the next /confirm, after the clock moved, activated one with it     *)
(* again                                                                   *)
C12_Witness ==
    /\ verifier = "sui"
    /\ last_confirm.repeated
    /\ last_confirm.hash = "hOK"
    /\ last_confirm.wrote
    /\ last_confirm.at > Now0
    /\ [token_address |-> last_confirm.token,
        expiration_timestamp |-> last_confirm.at + 4 * 3600] \in boosts

(* what the claim says of a /confirm that writes while the token has a row *)
C13_Replaces ==
    (/\ last_confirm'.wrote
     /\ last_confirm'.token \in {r.token_address : r \in boosts})
    => /\ "boost_seconds" \in DOMAIN user_data
       /\ boosts' = {r \in boosts : r.token_address # last_confirm'.token}
                       \cup {[token_address |-> last_confirm'.token,
                               expiration_timestamp |-> now + user_data["boost_seconds"]]}
       /\ Cardinality(boosts') = Cardinality(boosts)

(* C13: the boosts table never holds two rows with the same token_address, *)
(* and a /confirm that activates a boost for a token that has a row leaves *)
(* the new row in the place of the old one, the other rows untouched.      *)
C13_OneBoostRowPerToken ==
    /\ [](\A r1 \in boosts, r2 \in boosts :
             r1.token_address = r2.token_address => r1 = r2)
    /\ [][C13_Replaces \/ ~ConfirmStep]_vars

(* a second boost of a token was confirmed at a later time: its row has    *)
(* the new expiration and is the only row of the token                     *)
C13_Witness ==
    /\ last_confirm.replaced
    /\ last_confirm.at > Now0
    /\ [token_address |-> last_confirm.token,
        expiration_timestamp |-> last_confirm.at + 4 * 3600] \in boosts
    /\ Cardinality({r \in boosts : r.token_address = last_confirm.token}) = 1

(* ========================= claims on the wizard ======================== *)
(* what the claim says of a step of finish_setup in chat c *)
C8_Outcome(c) ==
    LET settings == Settings(user_data)
        group_id == user_data["setup_group_id"]
    IN IF REQUIRED_FIELDS \subseteq DOMAIN settings
       THEN /\ "setup_group_id" \in DOMAIN user_data
            /\ group_id \in DOMAIN GroupById'
            /\ GroupById'[group_id].token_address = settings["token_address"]
            /\ GroupById'[group_id].min_buy_usd = settings["min_buy_usd"]
            /\ GroupById'[group_id].emoji = settings["emoji"]
            /\ conv'[c] = END
       ELSE /\ groups' = groups
            /\ Settings(user_data') = settings
            /\ conv'[c] = CHOOSING

(* C8: in CHOOSING, finish_setup stores the GroupConfig and ends the       *)
(* conversation when token_address, min_buy_usd and emoji are all set in   *)
(* the session; otherwise it stores nothing, leaves the session settings   *)
(* as they are and the conversation stays in CHOOSING.                     *)
C8_FinishCompletenessGate ==
    [][\A c \in Chats : C8_Outcome(c) \/ ~finish_setup(c)]_vars

(* what the claim says of a step: a row stays, or it is the row of the     *)
(* group being set up and that group has a row afterwards                  *)
C14_RowsStay ==
    \A r \in groups :
        \/ r \in groups'
        \/ /\ "setup_group_id" \in DOMAIN user_data
           /\ r.group_id = user_data["setup_group_id"]
           /\ \E r2 \in groups' : r2.group_id = r.group_id

(* C14: the groups table never holds two rows with the same group_id; a    *)
(* step of the wizard removes no group's row and leaves the rows of the    *)
(* other groups as they are, whatever token they hold.                     *)
C14_OneConfigPerGroup ==
    /\ [](\A r1 \in groups, r2 \in groups : r1.group_id = r2.group_id => r1 = r2)
    /\ [][C14_RowsStay]_vars

(* the setup of g1 was finished with the token g2 tracks: both rows are    *)
(* there                                                                   *)
C14_Witness ==
    /\ last_op.op = "finish_setup"
    /\ last_op.saved
    /\ \E r1 \in groups, r2 \in groups :
          /\ r1.group_id = "g1"
          /\ r2.group_id = "g2"
          /\ r1.token_address = r2.token_address

(* what the claim says of a Finish in chat c that was accepted and in      *)
(* which no call failed                                                    *)
C15_Stored(c) ==
    (/\ faults' = faults
     /\ conv'[c] = END
     /\ "setup_group_id" \in DOMAIN user_data
     /\ REQUIRED_FIELDS \subseteq DOMAIN Settings(user_data))
    => LET settings == Settings(user_data)
       IN \E r \in groups' :
             /\ r.group_id = user_data["setup_group_id"]
             /\ r.token_address = settings["token_address"]
             /\ r.token_symbol = TokenInfo(settings["token_address"]).symbol
             /\ r.min_buy_usd = settings["min_buy_usd"]
             /\ r.emoji = settings["emoji"]
             /\ r.website = Get(settings, "website", None)
             /\ r.telegram_link = Get(settings, "telegram_link", None)
             /\ r.twitter_link = Get(settings, "twitter_link", None)
             /\ r.media_file_id = Get(settings, "media_file_id", None)

(* C15: after an accepted Finish the row of the origin group holds the     *)
(* session's token_address, min_buy_usd, emoji, website, telegram_link,    *)
(* twitter_link and media id, and as token_symbol the symbol fetched at    *)
(* Finish.                                                                 *)
C15_StoredConfigEqualsSettings ==
    [][\A c \in Chats : C15_Stored(c) \/ ~finish_setup(c)]_vars

(* what the claim says of a Finish in chat c whose 'Setup Complete'        *)
(* summary was sent                                                        *)
C16_Terminal(c) ==
    (/\ last_op'.reply = "setup_complete"
     /\ last_op'.delivered
     /\ "setup_group_id" \in DOMAIN user_data
     /\ REQUIRED_FIELDS \subseteq DOMAIN Settings(user_data))
    => /\ \E r \in groups' :
             /\ r.group_id = user_data["setup_group_id"]
             /\ r.token_address = Settings(user_data)["token_address"]
             /\ r.min_buy_usd = Settings(user_data)["min_buy_usd"]
             /\ r.emoji = Settings(user_data)["emoji"]
       /\ user_data' = EmptyDict
       /\ conv'[c] = END

(* C16: whenever Finish sends the 'Setup Complete' confirmation, the       *)
(* GroupConfig of the group is in the groups table, and after the step the *)
(* session's user data is empty and the conversation has ended.            *)
C16_PersistThenConfirm ==
    [][\A c \in Chats : C16_Terminal(c) \/ ~finish_setup(c)]_vars

(* what the claim says of a /cancel in chat c *)
C17_Cancelled(c) ==
    /\ user_data' = EmptyDict
    /\ groups' = groups
    /\ conv'[c] = END

(* C17: in CHOOSING and in every input state /cancel empties the session's *)
(* user data, ends the conversation and leaves the groups table as it is.  *)
C17_CancelClears ==
    [][\A c \in Chats : C17_Cancelled(c) \/ ~cancel(c)]_vars

(* a value the claim lets the input state store *)
C18_ValidValue(state, v) ==
    CASE state = INPUT_TOKEN -> StartsWith(v, "0x") /\ StrLen(v) >= 10
      [] state = INPUT_MIN_BUY -> v # NaN /\ v > 0
      [] state = INPUT_EMOJI -> StrLen(v) <= 10
      [] state = INPUT_WEBSITE ->
            IF v = None THEN TRUE
            ELSE StartsWith(v, "http://") \/ StartsWith(v, "https://")
      [] OTHER -> TRUE

(* a step of the handler of the input state chat c is in *)
C18_InputStep(c) ==
    /\ conv[c] \in DOMAIN FieldOf
    /\ faults' = faults
    /\ \/ receive_token(c) \/ receive_min_buy(c) \/ receive_emoji(c)
       \/ receive_website(c) \/ receive_telegram(c) \/ receive_twitter(c)
       \/ receive_media(c)

(* what the claim says of such a step whose reply was delivered: the field *)
(* is stored with a valid value, nothing else of the settings changes and  *)
(* the state becomes CHOOSING, or nothing changes and the state stays      *)
C18_Outcome(c) ==
    conv[c] \in DOMAIN FieldOf =>
        LET field == FieldOf[conv[c]]
            old == Settings(user_data)
            new == Settings(user_data')
        IN \/ /\ user_data' = user_data
              /\ conv'[c] = conv[c]
           \/ /\ conv'[c] = CHOOSING
              /\ DOMAIN new = DOMAIN old \cup {field}
              /\ \A k \in DOMAIN old \ {field} : new[k] = old[k]
              /\ C18_ValidValue(conv[c], new[field])

(* C18: the handler of an input state stores its field only with a value   *)
(* that passes the validation (a token starting with 0x of at least 10     *)
(* characters, a number > 0, an emoji of at most 10 characters, a website  *)
(* with a scheme, a link, or null for 'skip') and then returns to          *)
(* CHOOSING; otherwise the settings are unchanged and the state stays.     *)
C18_InputValidation ==
    [][\A c \in Chats : C18_Outcome(c) \/ ~C18_InputStep(c)]_vars

(* the groups configured for the token of the last buy whose minimum the   *)
(* buy meets                                                               *)
C19_Qualifying ==
    {g \in DOMAIN GroupById : /\ GroupById[g].token_address = last_buy.token
                              /\ last_buy.usd_value >= GroupById[g].min_buy_usd}

(* C19: when the send to one group failed while a buy was processed, every *)
(* other group that tracks the token and whose minimum the buy meets has   *)
(* still been sent the alert, and the trending decision was still taken:   *)
(* the post to the trending channel was attempted exactly when the buy is  *)
(* at least 200.00 or its token is boosted.                                *)
C19_FireAndForgetDelivery ==
    (Processed /\ last_buy.failed # {}) =>
        /\ \A g \in C19_Qualifying \ last_buy.failed : BuyMessages(g, last_buy.tx) # {}
        /\ last_buy.attempted = C19_Qualifying
        /\ IF last_buy.usd_value >= TRENDING_MIN_USD \/ BoostedAt(last_buy.token, last_buy.at)
           THEN last_buy.trending \in {"sent", "failed"}
           ELSE last_buy.trending = "none"

(* the send to the first of two groups failed, the second group received   *)
(* the alert and the buy was posted to the trending channel                *)
C19_Witness ==
    /\ Processed
    /\ last_buy.failed = {"g1"}
    /\ "g2" \in C19_Qualifying
    /\ BuyMessages("g2", last_buy.tx) # {}
    /\ BuyMessages("g1", last_buy.tx) = {}
    /\ last_buy.trending = "sent"

(* clamp(floor(usd_value / emoji_step), 1, 20), usd in cents and the step  *)
(* in dollars                                                              *)
C20_Clamp(usd, step) == Max2(1, Min2(20, usd \div (step * 100)))

(* C20: the number of emojis a formatter repeats, the one inside           *)
(* check_buys and format_alert alike, is never fewer than 1 nor more than  *)
(* 20, and is clamp(floor(usd_value / emoji_step), 1, 20) for the step of  *)
(* the group: 3 for 17.00 and step 5, 20 for 250.00 and step 5.            *)
C20_EmojiCountClamp ==
    formatted.by # "none" =>
        /\ formatted.count >= 1
        /\ formatted.count <= 20
        /\ (formatted.configured /\ formatted.step > 0) =>
               formatted.count = C20_Clamp(formatted.usd_value, formatted.step)

(* C21: shorten_address returns None, '' and an address of fewer than 10   *)
(* characters unchanged; any other address becomes its first 6 characters, *)
(* three dots and its last 4 characters.                                   *)
C21_ShortenAddress ==
    shortened.called =>
        LET a == shortened.address
            r == shortened.result
            n == Len(a.chars)
        IN IF a.kind = "None" \/ n < 10
           THEN r = a
           ELSE /\ r.kind = "str"
                /\ Len(r.chars) = 13
                /\ \A i \in 1..6 : r.chars[i] = a.chars[i]
                /\ \A i \in 7..9 : r.chars[i] = "."
                /\ \A i \in 1..4 : r.chars[9 + i] = a.chars[n - 4 + i]

(* "0x1234567890abcdef" was shortened to "0x1234...cdef" *)
C21_Witness ==
    /\ shortened.called
    /\ shortened.address = PyStr(ExampleAddress)
    /\ shortened.result =
          PyStr(<<"0", "x", "1", "2", "3", "4", ".", ".", ".", "c", "d", "e", "f">>)

(* entry a may stand before entry b in the leaderboard: a boosted token    *)
(* before one that is not, of two boosted tokens the one with no less      *)
(* remaining time, of two others the one with no less 30-minute volume     *)
C22_MayPrecede(a, b) ==
    IF a.is_boosted # b.is_boosted THEN a.is_boosted
    ELSE IF a.is_boosted THEN a.boost_remaining >= b.boost_remaining
    ELSE a.volume_30m >= b.volume_30m

(* C22: the leaderboard lists at most 10 tokens, each once, out of         *)
(* token_data; boosted tokens stand before the others, boosted tokens in   *)
(* the order of their remaining boost time, longest first, the others in   *)
(* the order of their 30-minute volume, highest first; and no token left   *)
(* out would have to stand before a listed one.                            *)
C22_LeaderboardOrder ==
    ranking.called =>
        LET top == ranking.top_tokens
            data == ranking.token_data
            listed == {top[i] : i \in DOMAIN top}
            all == {data[i] : i \in DOMAIN data}
        IN /\ Len(top) = Min2(10, Len(data))
           /\ listed \subseteq all
           /\ Cardinality(listed) = Len(top)
           /\ \A i, j \in DOMAIN top : i < j => C22_MayPrecede(top[i], top[j])
           /\ \A x \in all \ listed : \A i \in DOMAIN top : C22_MayPrecede(top[i], x)

(* eleven tokens were ranked, boosted and not: ten are listed, the boosted *)
(* ones first and the one with the longest boost at the head               *)
C22_Witness ==
    /\ ranking.called
    /\ Len(ranking.token_data) = 11
    /\ Len(ranking.top_tokens) = 10
    /\ ~ranking.token_data[1].is_boosted
    /\ ranking.top_tokens[1].is_boosted
    /\ ranking.top_tokens[1].boost_remaining = 7200
    /\ ranking.top_tokens[3].boost_remaining = 0
    /\ ~ranking.top_tokens[4].is_boosted

(* C23: a run of trend_alert that has a token with data sends the ranked   *)
(* message to the trending channel, whatever mix of boosted and other      *)
(* tokens it lists, unless the send itself fails; the message has one      *)
(* entry for each of the top tokens, and a failed pin leaves it sent.      *)
C23_LeaderboardSentAndPinned ==
    (board.top_tokens # <<>> /\ board.outcome # "send_failed") =>
        /\ board.outcome \in {"sent_pinned", "sent_not_pinned"}
        /\ Len(board.entries) = Len(board.top_tokens)

(* C24: after the connection of a stream client is closed or refused, the  *)
(* client is eventually connected again with its subscriptions sent, the   *)
(* listener of sui_api and the client of buy_stream alike.                 *)
C24_Reconnects ==
    /\ (ws_state = "closed") ~> (ws_state = "subscribed")
    /\ (bs_state = "returned") ~> (bs_state = "listening")

(* a buyer address of the shape the chain gives *)
C25_WellFormedBuyer(a) == a = "0xbuyer00000001"

(* C25: every buy the listener has queued has a positive token amount and  *)
(* a well-formed buyer address.                                            *)
C25_ValidatedBeforeQueued ==
    \A i \in DOMAIN produced :
        /\ produced[i].amount > 0
        /\ C25_WellFormedBuyer(produced[i].buyer_address)

(* C26: under every interleaving of on_message and                         *)
(* fetch_recent_buys_from_queue the buys returned so far, followed by the  *)
(* buys a running fetch call has copied and the buys still queued, are the *)
(* buys queued so far in their order of arrival: none is lost, none is     *)
(* returned twice.                                                         *)
C26_QueueExactlyOnceInOrder ==
    /\ fetch_call.pc \in {"idle", "locked"} => returned \o buy_event_queue = produced
    /\ fetch_call.pc = "copied" => returned \o fetch_call.buys = produced

(* two buys were queued: a fetch call returned the first, and the second   *)
(* is in the queue for the next call                                       *)
C26_Witness ==
    /\ Len(produced) = 2
    /\ Len(returned) = 1
    /\ buy_event_queue = <<produced[2]>>
    /\ fetch_call.pc = "idle"

(* C27: while a token has an unexpired boost its buys reach the trending   *)
(* channel whether or not a group tracks it: a run of check_buys polls     *)
(* every token it read as boosted, and a processed buy of a boosted token  *)
(* is posted to the trending channel unless that send itself fails.        *)
C27_BoostedBuysReachTrending ==
    /\ cb_pc # "idle" => cb_boosted \subseteq TrackedTokens
    /\ (Processed /\ BoostedAt(last_buy.token, last_buy.at)) =>
           last_buy.trending \in {"sent", "failed"}

(* C28: a failure while the buys of one token are fetched or processed     *)
(* does not end the run of check_buys: each step of a run leaves the       *)
(* tokens still to be polled as they were, but for the token whose fetch   *)
(* it starts, and the run ends only when no token is left.                 *)
C28_Step ==
    cb_pc # "idle" =>
        /\ cb_pc = "buys" => cb_tokens' = cb_tokens
        /\ (cb_pc = "poll" /\ cb_tokens # <<>>) => cb_tokens' = Tail(cb_tokens)
        /\ cb_pc' = "idle" => cb_tokens = <<>>

C28_FeedSurvivesFailures == [][C28_Step]_vars

(* in the first run the fetch for one token raised, and a buy of the       *)
(* token polled after it was processed                                     *)
C28_Witness ==
    /\ cb_pc # "idle"
    /\ cb_last_check = cb_now - FIRST_LOOKBACK
    /\ cb_fetch = "failed"
    /\ Processed
    /\ last_buy.token = cb_token
    /\ last_buy.attempted # {}

(* C29: whatever happens while one buy of a poll result is processed, the  *)
(* buys after it in the same result are still to be processed: the step    *)
(* removes the buy it processed and no other.                              *)
C29_Step == (cb_pc = "buys" /\ cb_buys # <<>>) => cb_buys' = Tail(cb_buys)

C29_FailureSkipsOneBuy == [][C29_Step]_vars

(* C30: every alert delivered to the trending channel shows the USD value  *)
(* of the buy it is for, and the market cap and liquidity of that buy's    *)
(* token.                                                                  *)
C30_TrendingShowsOwnBuy ==
    \A i \in DOMAIN outbox :
        outbox[i].kind = "trending_buy" =>
            /\ outbox[i].body.usd_value_str = UsdStr(UsdOf(outbox[i].tx))
            /\ outbox[i].body.market_cap_str = MarketStr(TokenInfo(outbox[i].token).market_cap)
            /\ outbox[i].body.liquidity_str = MarketStr(TokenInfo(outbox[i].token).liquidity)

(* C31: every event notification the socket of buy_stream has delivered is *)
(* on event_queue exactly once, in the order of arrival, as soon as the     *)
(* loop of _ws_listen is done with the message it holds; this includes the  *)
(* notifications that arrive while a subscribe request waits for its        *)
(* answer.                                                                  *)
C31_Delivered ==
    event_queue \o (IF bs_msg.type = "event" THEN <<bs_msg.id>> ELSE <<>>)

C31_EveryNotificationQueuedOnce ==
    C31_Delivered = [i \in 1..bs_inbound |-> i]

(* C32: a token put on subscribe_queue is eventually taken from it by the   *)
(* thread of buy_stream, which sends its subscribe request.                 *)
C32_QueuedTokenIsTaken ==
    \A tok \in Tokens : (tok \in QueuedTokens) ~> (tok \notin QueuedTokens)

(* C33: the checkpoint never decreases; a run of check_buys that has tokens  *)
(* queries from the value the run before it wrote (from now - 60 when none   *)
(* did) and writes a later value in the same step, so that no two runs      *)
(* query from the same value; a run with no tracked token leaves the        *)
(* checkpoint as it is.                                                     *)
C33_Checkpoint(bd) == Get(bd, "last_check_timestamp", 0 - 1)

C33_Step ==
    /\ C33_Checkpoint(bot_data') >= C33_Checkpoint(bot_data)
    /\ (cb_pc = "idle" /\ cb_pc' = "poll") =>
           /\ cb_last_check' = IF C33_Checkpoint(bot_data) >= 0
                                THEN C33_Checkpoint(bot_data)
                                ELSE now - FIRST_LOOKBACK
           /\ C33_Checkpoint(bot_data') = now
           /\ cb_last_check' < C33_Checkpoint(bot_data')
    /\ (cb_pc # "idle" /\ cb_pc' # "idle") => cb_last_check' = cb_last_check
    /\ TrackedTokens = {} => bot_data' = bot_data

C34_Step ==
    \A r \in boosts :
        r.expiration_timestamp > now =>
            \A r2 \in boosts' : r2.token_address = r.token_address =>
                                    r2.expiration_timestamp >= r.expiration_timestamp

C34_ConfirmNeverShortens == [][C34_Step]_vars

(* C35: the message a /confirm leaves on the screen agrees with the store: *)
(* 'Boost activated' is shown exactly when the call wrote a row of boosts, *)
(* and when 'error occurred' or 'verification failed' is shown the table   *)
(* is as it was and the pending selection is still in user_data.           *)
C35_Step ==
    ConfirmStep =>
        /\ (last_confirm'.shown = "boost_activated") <=> last_confirm'.wrote
        /\ last_confirm'.shown \in {"error_occurred", "verification_failed"} =>
               /\ boosts' = boosts
               /\ PendingKeys \subseteq DOMAIN user_data'

C35_ReplyAgreesWithStore == [][C35_Step]_vars

(* C36: an operation of the setup wizard (the input of a field, Finish,     *)
(* Cancel) leaves the pending boost selection in user_data as it was, and   *)
(* an operation of the boost flow leaves the wizard's settings and selected *)
(* group as they were.                                                      *)
C36_WizardKeys == {"settings", "setup_group_id", "setup_group_name"}

C36_Same(keys) ==
    \A k \in keys : /\ (k \in DOMAIN user_data) <=> (k \in DOMAIN user_data')
                    /\ k \in DOMAIN user_data => user_data'[k] = user_data[k]

C36_WizardOp ==
    \E c \in Chats : \/ menu_handler(c)
                     \/ receive_token(c)
                     \/ receive_min_buy(c)
                     \/ receive_emoji(c)
                     \/ cancel(c)

C36_BoostOp == boost_callback \/ confirm_boost

C36_Step ==
    /\ C36_WizardOp => C36_Same(PendingKeys)
    /\ C36_BoostOp => C36_Same(C36_WizardKeys)

C36_FlowsDoNotInterfere == [][C36_Step]_vars

(* C37: when the wizard is completed for a group that has a row of groups, *)
(* every optional field (website, telegram_link, twitter_link,              *)
(* media_file_id) that was not set in the session keeps the value the row   *)
(* had.                                                                     *)
C37_Step ==
    \A r \in groups, r2 \in groups' :
        r.group_id = r2.group_id =>
            \A f \in OPTIONAL_FIELDS :
                f \notin DOMAIN Settings(user_data) => r2[f] = r[f]

C37_ReconfigureKeepsUntouched == [][C37_Step]_vars

(* C38: the conversation of the user in a group chat is always ended: the  *)
(* wizard is in CHOOSING or in an input state only in the private chat,    *)
(* and only while a group recorded by /start in a group is in user_data or *)
(* was when the wizard was entered.                                        *)
C38_WizardOnlyInPrivateChat ==
    \A c \in UserGroups : conv[c] = END

====
